---- MODULE Spec2Model ----
(***************************************************************************)
(* A model of the 168.se search engine: the index store (SearchIndexer),   *)
(* the query engine's reader (QueryEngine), the job scheduler              *)
(* (CrawlScheduler) and the pipeline facade (SearchEngine).                *)
(*                                                                         *)
(* The full-text index is the Whoosh library: writer.add_document appends  *)
(* a record without looking at the unique field, writer.delete_by_term     *)
(* removes every committed record with the term, index.writer() takes the  *)
(* index's write lock or raises LockError at once, commit publishes the    *)
(* writer's work in one step, cancel drops it, and index.searcher() reads  *)
(* the index as of the moment it was opened.                               *)
(*                                                                         *)
(* Jobs are run through the schedule library: every().day.at(t).do(f, job) *)
(* registers an entry that holds the job dict, every().week.at(t) raises   *)
(* (at() takes days, hours and minutes), and run_pending calls the entries *)
(* that are due one after the other in the calling thread.                 *)
(*                                                                         *)
(* Spec is the whole program. Its parts are checked one by one: SpecIndex  *)
(* (index writes and searches), SpecJobs (the job list), SpecExec (the job *)
(* list with run_job_now and crawl_and_index), SpecLoop (the job list with *)
(* the background loop; FairLoop adds that the loop's thread keeps         *)
(* running), SpecRace (add_crawl_job and remove_crawl_job statement by     *)
(* statement in two threads), SpecCrawl (WebCrawler.crawl turn by turn, on *)
(* a new crawler and on the facade's; FairCrawl adds that a crawl in       *)
(* progress goes on), SpecStatus (update_job_status with the clock and     *)
(* the schedule_time spelled out), SpecFind (find_or_create_manual_job on  *)
(* the job list), SpecManual (daily and manual jobs run by run_job_now,    *)
(* crawl_and_index and the loop), SpecStop (start_scheduler and            *)
(* stop_scheduler with the loop threads a stop leaves behind; FairStop     *)
(* adds that those threads keep running), SpecRunNow (run_job_now and its  *)
(* threads; FairRunNow adds that every such thread keeps running),         *)
(* SpecConfig (crawl_config.json as it is loaded and saved), SpecRank      *)
(* (SearchRanking on the hits of QueryEngine.search), SpecWeights          *)
(* (get_weights and a caller that writes to the dict it got), SpecSearch   *)
(* (the search methods of QueryEngine and SearchEngine.search, with the    *)
(* step that raises inside them), SpecTitle (calculate_title_score as      *)
(* rank_results calls it) and SpecParse (parse_page, for its headings).    *)
(*                                                                         *)
(* Ranking scores are floats in the code and fixed-point integers here:    *)
(* a score is kept in thousandths, a weight in tenths, a ranking score in  *)
(* ten-thousandths, and time in periods of 30 days.                        *)
(***************************************************************************)
EXTENDS Integers, Sequences, FiniteSets, TLC

\* ------------------------------------------------------------------ bounds
MaxRecords == 2     \* records the index may hold (caps the adds)
MaxJobs == 2        \* job dicts alive at once
MaxWorkers == 1     \* run_job_now threads alive at once
MaxLoops == 1        \* run_scheduler threads alive at once
MaxStale == 1        \* more of them, left alive by a stop_scheduler
MaxPages == 2       \* the largest max_pages a crawl is given
MaxDepth == 1       \* the largest max_depth a crawl is given
MaxTime == 2        \* the latest time.time(), in periods of 30 days
MaxElements == 2    \* the elements of a page that is parsed
MaxLimit == 2       \* the largest limit a search method is given
MaxRuns == 2        \* crawl calls on one WebCrawler

\* ------------------------------------------------------------- index store
Urls == {"u1", "u2"}
Vers == {1, 2}                      \* the content of a page, by version
Doc == [url : Urls, ver : Vers]     \* a stored record
Page == [url : Urls, ver : Vers, bad : BOOLEAN]
    \* a parsed page; bad: writer.add_document raises on it (for one, a
    \* crawl_time that datetime.fromtimestamp rejects)
Writers == {"loop", "runnow", "facade"}   \* the threads that index
WriteOps == {"index_pages", "update_document", "delete_document",
             "optimize_index"}
NoUrl == "-"

VARIABLES
    index,      \* the committed index: Doc -> number of records
    wlock,      \* the index's write lock is held
    wop,        \* Writers -> the write a thread has a writer open for, or "none"
    searcher,   \* the query engine's searcher: the index it reads, or NoSearcher
    ev          \* the last call and what it gave back

ivars == <<index, wlock, wop, searcher, ev>>

\* ---------------------------------------------------------- job scheduler
VARIABLES
    jobs,        \* the job dicts: Keys -> a job record, or NoJob
    crawl_jobs,  \* CrawlScheduler.crawl_jobs: the list of job dicts (their keys)
    is_running,  \* CrawlScheduler.is_running
    registry,    \* the job dicts registered with the schedule library
    due,         \* the job dicts whose trigger time has been reached
    loop,        \* the run_scheduler threads: LoopIds -> [st, todo, cur]
    workers,     \* the run_job_now threads: a set of [key, st]
    facade,      \* the job id a crawl_and_index call in progress tracks, or 0
    adder,       \* a thread inside add_crawl_job: the job dict it has built, or Idle
    remover,     \* a thread inside remove_crawl_job: the list it has built, or Idle
    removed_ids  \* the ids remove_crawl_job has been called with

rvars == <<adder, remover, removed_ids>>
svars == <<jobs, crawl_jobs, is_running, registry, due, loop, workers, facade, rvars>>

\* ---------------------------------------------------------------- crawler
VARIABLES
    links,          \* the web: url -> the hrefs of its page, in order
    max_pages,      \* WebCrawler.max_pages
    max_depth,      \* WebCrawler.max_depth
    visited_urls,   \* WebCrawler.visited_urls
    url_queue,      \* WebCrawler.url_queue: a list of <<url, depth>>
    crawled_pages,  \* WebCrawler.crawled_pages: a list of [url, depth]
    cst,            \* where crawl is: "idle", "loop", "returned"
    seeds,          \* the seed urls of the crawl call
    runs,           \* the crawl calls made on this WebCrawler
    fetched,        \* the urls whose page this crawl call fetched
    refused,        \* the urls this crawl call tried and got no page for
    owner           \* who made the WebCrawler: "facade" or "job"

cvars == <<links, max_pages, max_depth, visited_urls, url_queue, crawled_pages,
           cst, seeds, runs, fetched, refused, owner>>

\* ------------------------------------------------ update_job_status, timed
VARIABLES
    now,        \* datetime.now()
    tjob        \* a job dict: schedule_type, schedule_time, status, next_run

tvars == <<now, tjob>>

\* ------------------------------------------------------------------ facade
VARIABLES
    tracked     \* the job dict find_or_create_manual_job gave the
                \* crawl_and_index call in progress (its key), or 0

hvars == <<tracked>>

\* -------------------------------------------------- the configuration file
VARIABLES
    config_file,    \* what crawl_config.json holds
    saved_jobs      \* self.crawl_jobs of the scheduler that owns the file

fvars == <<config_file, saved_jobs>>

\* ----------------------------------------------------------------- ranking
VARIABLES
    weights,        \* SearchRanking.weights
    results,        \* the hit dicts QueryEngine.search gave the caller
    ranked,         \* what the last rank_results call returned
    current_time,   \* time.time()
    passed          \* the last rank_results call: the hits as passed in, the
                    \* query string and the weights at the time, or NoCall

kvars == <<weights, results, ranked, current_time, passed>>

\* ---------------------------------------------- single calls and their result
VARIABLES
    scored,     \* the last calculate_title_score call of rank_results: the
                \* query string, query_terms, title and the score returned
    parsed,     \* the last parse_page call: the elements of the page and the
                \* headings of the parsed page
    returned,   \* the dict the last get_weights call gave its caller: which
                \* object it is and what it holds now
    answer      \* the last call of a search method: its arguments, what
                \* happened inside and what the caller got

xvars == <<scored, parsed, returned, answer>>

qvars == <<fvars, kvars, xvars>>
pvars == <<cvars, tvars, hvars, qvars>>
vars == <<ivars, svars, pvars>>

NoSearcher == <<>>
EmptyIndex == [d \in Doc |-> 0]
DocOf(p) == [url |-> p.url, ver |-> p.ver]
Total(ix) == ix[[url |-> "u1", ver |-> 1]] + ix[[url |-> "u1", ver |-> 2]]
             + ix[[url |-> "u2", ver |-> 1]] + ix[[url |-> "u2", ver |-> 2]]
CountUrl(ix, u) == ix[[url |-> u, ver |-> 1]] + ix[[url |-> u, ver |-> 2]]
\* the batches index_pages is given: the parsed pages of one crawl run, which
\* holds a url once
Batches == {b \in SUBSET Page : \A p1, p2 \in b : p1.url = p2.url => p1 = p2}

\* op: the call; url: its url or query; n: the pages it was given;
\* addFailed: writer.add_document raised on one of them; raised: the call
\* raised to its caller; result: the records a search returned
Event(op, url, n, addFailed, raised, result) ==
    [op |-> op, url |-> url, n |-> n,
     addFailed |-> addFailed, raised |-> raised, result |-> result]
NoEvent == Event("init", NoUrl, 0, FALSE, FALSE, {})

\* SearchIndexer.add_document: the record is added unless writer.add_document
\* raises; the except clause logs the error and returns normally.
AddDocument(ix, p) ==
    IF p.bad THEN ix ELSE [ix EXCEPT ![DocOf(p)] = @ + 1]

\* the for loop of index_pages over a batch
AddDocuments(ix, batch) ==
    [d \in Doc |-> ix[d] + Cardinality({p \in batch : ~p.bad /\ DocOf(p) = d})]

\* writer.delete_by_term('url', u)
DeleteByTerm(ix, u) == [d \in Doc |-> IF d.url = u THEN 0 ELSE ix[d]]

\* index.writer(): the write lock is free (else LockError, raised at once)
LockAcquirable_NoLock == TRUE
LockAcquirable == ~wlock

\* writer = self.index.writer(), the first statement of every write
OpenWriter(t, op) ==
    /\ wop[t] = "none"
    /\ IF LockAcquirable
         THEN /\ wlock' = TRUE
              /\ wop' = [wop EXCEPT ![t] = op]
              /\ ev' = Event("writer", NoUrl, 0, FALSE, FALSE, {})
         ELSE /\ UNCHANGED <<wlock, wop>>
              /\ ev' = Event(op, NoUrl, 0, FALSE, TRUE, {})
    /\ UNCHANGED <<index, searcher>>
    /\ UNCHANGED <<svars, pvars>>

\* the rest of index_pages: add every page, commit; on an exception cancel
\* and raise. ioError: writer.commit() raises.
IndexPages(t, batch, ioError) ==
    /\ wop[t] = "index_pages"
    /\ Total(AddDocuments(index, batch)) <= MaxRecords
    /\ index' = IF ioError THEN index ELSE AddDocuments(index, batch)
    /\ wlock' = FALSE
    /\ wop' = [wop EXCEPT ![t] = "none"]
    /\ ev' = Event("index_pages", NoUrl, Cardinality(batch),
                   \E p \in batch : p.bad, ioError, {})
    /\ UNCHANGED searcher
    /\ UNCHANGED <<svars, pvars>>

\* the rest of update_document: delete_by_term, add_document, commit
UpdateDocument(t, p, ioError) ==
    /\ wop[t] = "update_document"
    /\ Total(AddDocument(DeleteByTerm(index, p.url), p)) <= MaxRecords
    /\ index' = IF ioError THEN index
                ELSE AddDocument(DeleteByTerm(index, p.url), p)
    /\ wlock' = FALSE
    /\ wop' = [wop EXCEPT ![t] = "none"]
    /\ ev' = Event("update_document", p.url, 1, p.bad, ioError, {})
    /\ UNCHANGED searcher
    /\ UNCHANGED <<svars, pvars>>

\* the rest of delete_document: delete_by_term, commit
DeleteDocument(t, u, ioError) ==
    /\ wop[t] = "delete_document"
    /\ index' = IF ioError THEN index ELSE DeleteByTerm(index, u)
    /\ wlock' = FALSE
    /\ wop' = [wop EXCEPT ![t] = "none"]
    /\ ev' = Event("delete_document", u, 0, FALSE, ioError, {})
    /\ UNCHANGED searcher
    /\ UNCHANGED <<svars, pvars>>

\* optimize_index, the index after the with block: FileIndex has no attribute
\* CLEAR, so writer.mergetype = self.index.CLEAR raises AttributeError and the
\* writer's __exit__ cancels; nothing is merged and nothing is dropped
OptimizedIndex_Clear(ix) == EmptyIndex
OptimizedIndex(ix) == ix

\* the rest of optimize_index: the with block, the except clause, raise
OptimizeIndex(t) ==
    /\ wop[t] = "optimize_index"
    /\ index' = OptimizedIndex(index)
    /\ wlock' = FALSE
    /\ wop' = [wop EXCEPT ![t] = "none"]
    /\ ev' = Event("optimize_index", NoUrl, 0, FALSE, TRUE, {})
    /\ UNCHANGED searcher
    /\ UNCHANGED <<svars, pvars>>

\* the records a reader of ix gets for a query; a query is modelled by the
\* url whose pages hold its term
Hits(ix, q) == {d \in Doc : d.url = q /\ ix[d] > 0}

\* SearchEngine.search: the query engine is made on the first search, and its
\* searcher is opened once, in QueryEngine.__init__
Search(q) ==
    /\ searcher' = IF searcher = NoSearcher THEN index ELSE searcher
    /\ ev' = Event("search", q, 0, FALSE, FALSE, Hits(searcher', q))
    /\ UNCHANGED <<index, wlock, wop>>
    /\ UNCHANGED <<svars, pvars>>

IndexInit ==
    /\ index = EmptyIndex
    /\ wlock = FALSE
    /\ wop = [t \in Writers |-> "none"]
    /\ searcher = NoSearcher
    /\ ev = NoEvent

IndexNext ==
    \/ \E t \in Writers, op \in WriteOps : OpenWriter(t, op)
    \/ \E t \in Writers, b \in Batches, io \in BOOLEAN : IndexPages(t, b, io)
    \/ \E t \in Writers, p \in Page, io \in BOOLEAN : UpdateDocument(t, p, io)
    \/ \E t \in Writers, u \in Urls, io \in BOOLEAN : DeleteDocument(t, u, io)
    \/ \E t \in Writers : OptimizeIndex(t)
    \/ \E q \in Urls : Search(q)

\* ---------------------------------------------------------- job scheduler
Keys == 1 .. MaxJobs
LoopIds == 1 .. MaxLoops + MaxStale
Types == {"daily", "weekly", "hourly", "manual"}
Recurring == {"daily", "weekly", "hourly"}
Statuses == {"scheduled", "running", "completed", "failed"}
\* seed_urls, max_pages and max_depth as a caller passes them
CrawlParams(seeds_, pages, depth) ==
    [seed_urls |-> seeds_, max_pages |-> pages, max_depth |-> depth]
NoParams == CrawlParams(<<>>, 0, 0)
\* the ones add_crawl_job and crawl_and_index are called with
Params == {CrawlParams(<<"a", "b">>, 1, 1), CrawlParams(<<"c">>, 1, 1)}
\* the ones find_or_create_manual_job is called with: also the same urls in
\* another order, a url twice, other limits
ManualParams ==
    Params \cup {CrawlParams(<<"b", "a">>, 1, 1), CrawlParams(<<"c", "c">>, 1, 1),
                 CrawlParams(<<"a", "b">>, 2, 1), CrawlParams(<<"c">>, 1, 2)}
Outcomes == {"ok", "empty", "raise"}
    \* of crawl, parse and index: pages indexed; no page crawled or none
    \* parsed; an exception

NoJob == [id |-> 0, stype |-> "none", status |-> "none", params |-> NoParams,
          last_run |-> 0, next_run |-> 0]
\* last_run, next_run: 0 is None, 1 a timestamp
NewJob(id, stype, params) ==
    [id |-> id, stype |-> stype, status |-> "scheduled", params |-> params,
     last_run |-> 0, next_run |-> 0]

Range(list) == {list[i] : i \in 1 .. Len(list)}

\* the job dicts something still refers to; the others are collected
Live(list, reg, lp, wk) ==
    Range(list) \cup reg \cup {w.key : w \in wk}
    \cup UNION {lp[l].todo : l \in LoopIds}
    \cup ({lp[l].cur : l \in LoopIds} \ {0})
Collect(j, live) == [k \in Keys |-> IF k \in live THEN j[k] ELSE NoJob]

FreeKeys == {k \in Keys : jobs[k] = NoJob}
FreshKey == CHOOSE k \in FreeKeys : \A k2 \in FreeKeys : k <= k2

\* the place in the list of the first job with this id, or 0
FirstWithId_Any(j, list, id) == IF Len(list) = 0 THEN 0 ELSE 1
FirstWithId(j, list, id) ==
    LET hits == {i \in 1 .. Len(list) : j[list[i]].id = id}
    IN  IF hits = {} THEN 0 ELSE CHOOSE i \in hits : \A i2 \in hits : i <= i2

\* find_or_create_manual_job, the test of a job: set(job['seed_urls']) ==
\* set(seed_urls), and the two limits equal
SameParams_List(p, q) == p = q
SameParams(p, q) ==
    /\ Range(p.seed_urls) = Range(q.seed_urls)
    /\ p.max_pages = q.max_pages
    /\ p.max_depth = q.max_depth

\* the place in the list of the first job with these seed urls and limits, or 0
FirstWithParams(j, list, params) ==
    LET hits == {i \in 1 .. Len(list) : SameParams(j[list[i]].params, params)}
    IN  IF hits = {} THEN 0 ELSE CHOOSE i \in hits : \A i2 \in hits : i <= i2

\* add_crawl_job: 'id': len(self.crawl_jobs) + 1
NextId(list) == Len(list) + 1

\* update_job_status (no caller passes next_run): the first job of the list
\* with the id gets the status and, when given, last_run; a daily job set to
\* completed gets a next_run and goes back to scheduled
UpdateJobStatus_AnyType(j, list, id, status, lastRun) ==
    LET i == FirstWithId(j, list, id)
    IN  IF i = 0 THEN j
        ELSE [j EXCEPT ![list[i]] =
                [@ EXCEPT !.status = IF status = "completed"
                                       THEN "scheduled" ELSE status,
                          !.last_run = IF lastRun THEN 1 ELSE @]]
UpdateJobStatus(j, list, id, status, lastRun) ==
    LET i == FirstWithId(j, list, id)
    IN  IF i = 0 THEN j
        ELSE LET k == list[i]
                 r == [j[k] EXCEPT !.status = status,
                                   !.last_run = IF lastRun THEN 1 ELSE @]
             IN  IF status = "completed" /\ r.stype = "daily"
                   THEN [j EXCEPT ![k] = [r EXCEPT !.next_run = 1,
                                                   !.status = "scheduled"]]
                   ELSE [j EXCEPT ![k] = r]

\* add_crawl_job
AddCrawlJob(stype, params) ==
    /\ FreeKeys # {}
    /\ crawl_jobs' = Append(crawl_jobs, FreshKey)
    /\ jobs' = [jobs EXCEPT ![FreshKey] = NewJob(NextId(crawl_jobs), stype, params)]
    /\ UNCHANGED <<is_running, registry, due, loop, workers, facade>>
    /\ UNCHANGED <<ivars, rvars, pvars>>

\* remove_crawl_job: the list without the jobs of this id
Without(j, list, id) == SelectSeq(list, LAMBDA k : j[k].id # id)

RemoveCrawlJob(id) ==
    /\ crawl_jobs' = Without(jobs, crawl_jobs, id)
    /\ jobs' = Collect(jobs, Live(crawl_jobs', registry, loop, workers))
    /\ due' = due \cap Live(crawl_jobs', registry, loop, workers)
    /\ UNCHANGED <<is_running, registry, loop, workers, facade>>
    /\ UNCHANGED <<ivars, rvars, pvars>>

\* run_job_now: what it returns
RunJobNowFound(id) == FirstWithId(jobs, crawl_jobs, id) # 0

\* run_job_now: a thread for execute_crawl_job on the first job with the id
RunJobNow(id) ==
    LET i == FirstWithId(jobs, crawl_jobs, id)
    IN  /\ IF ~RunJobNowFound(id)
             THEN UNCHANGED workers
             ELSE /\ Cardinality(workers) < MaxWorkers
                  /\ [key |-> crawl_jobs[i], st |-> "spawned"] \notin workers
                  /\ workers' = workers \cup
                                  {[key |-> crawl_jobs[i], st |-> "spawned"]}
        /\ UNCHANGED <<jobs, crawl_jobs, is_running, registry, due, loop, facade>>
        /\ UNCHANGED <<ivars, rvars, pvars>>

\* execute_crawl_job in a run_job_now thread, up to the crawl
WorkerStart(w) ==
    /\ w \in workers /\ w.st = "spawned"
    /\ [w EXCEPT !.st = "crawl"] \notin workers
    /\ jobs' = UpdateJobStatus(jobs, crawl_jobs, jobs[w.key].id, "running", TRUE)
    /\ workers' = (workers \ {w}) \cup {[w EXCEPT !.st = "crawl"]}
    /\ UNCHANGED <<crawl_jobs, is_running, registry, due, loop, facade>>
    /\ UNCHANGED <<ivars, rvars, pvars>>

\* the status execute_crawl_job ends with
EndStatus(out) == IF out = "raise" THEN "failed" ELSE "completed"

\* execute_crawl_job in a run_job_now thread, from the crawl to its end
WorkerFinish(w, out) ==
    /\ w \in workers /\ w.st = "crawl"
    /\ workers' = workers \ {w}
    /\ LET j2 == UpdateJobStatus(jobs, crawl_jobs, jobs[w.key].id,
                                 EndStatus(out), out # "raise")
       IN  jobs' = Collect(j2, Live(crawl_jobs, registry, loop, workers'))
    /\ due' = due \cap Live(crawl_jobs, registry, loop, workers')
    /\ UNCHANGED <<crawl_jobs, is_running, registry, loop, facade>>
    /\ UNCHANGED <<ivars, rvars, pvars>>

\* find_or_create_manual_job: the id of the first job with these seed urls and
\* limits, else of a new manual job
FoundOrNewId(params) ==
    LET i == FirstWithParams(jobs, crawl_jobs, params)
    IN  IF i = 0 THEN NextId(crawl_jobs) ELSE jobs[crawl_jobs[i]].id
ListAfterFind(params) ==
    IF FirstWithParams(jobs, crawl_jobs, params) = 0
      THEN Append(crawl_jobs, FreshKey) ELSE crawl_jobs
JobsAfterFind(params) ==
    IF FirstWithParams(jobs, crawl_jobs, params) = 0
      THEN [jobs EXCEPT ![FreshKey] = NewJob(NextId(crawl_jobs), "manual", params)]
      ELSE jobs

FindOrCreateManualJob(params) ==
    /\ FirstWithParams(jobs, crawl_jobs, params) = 0 => FreeKeys # {}
    /\ crawl_jobs' = ListAfterFind(params)
    /\ jobs' = JobsAfterFind(params)
    /\ UNCHANGED <<is_running, registry, due, loop, workers, facade>>
    /\ UNCHANGED <<ivars, rvars, pvars>>

\* crawl_and_index, up to the crawl: the tracking job is found or made and
\* set to running
CrawlAndIndexStart(params) ==
    /\ facade = 0
    /\ FirstWithParams(jobs, crawl_jobs, params) = 0 => FreeKeys # {}
    /\ crawl_jobs' = ListAfterFind(params)
    /\ jobs' = UpdateJobStatus(JobsAfterFind(params), crawl_jobs',
                               FoundOrNewId(params), "running", TRUE)
    /\ facade' = FoundOrNewId(params)
    /\ tracked' = crawl_jobs'[FirstWithParams(jobs', crawl_jobs', params)]
    /\ UNCHANGED <<is_running, registry, due, loop, workers>>
    /\ UNCHANGED <<ivars, rvars, cvars, tvars, qvars>>

\* crawl_and_index: what it returns
CrawlAndIndexReturns(out) == out = "ok"

\* crawl_and_index, from the crawl to its return value
CrawlAndIndexFinish(out) ==
    /\ facade # 0
    /\ jobs' = UpdateJobStatus(jobs, crawl_jobs, facade,
                               IF CrawlAndIndexReturns(out)
                                 THEN "completed" ELSE "failed", FALSE)
    /\ facade' = 0
    /\ tracked' = 0
    /\ UNCHANGED <<crawl_jobs, is_running, registry, due, loop, workers>>
    /\ UNCHANGED <<ivars, rvars, cvars, tvars, qvars>>

\* schedule_jobs looks at a job when its status is one of these
Schedulable(j, k) == j[k].status \in {"scheduled", "completed", "failed"}

\* schedule_jobs: the place in the list where every().week.at(...) raises
\* (the schedule library takes at() for days, hours and minutes only), or 0
FirstWeekly(j, list) ==
    LET hits == {i \in 1 .. Len(list) :
                    Schedulable(j, list[i]) /\ j[list[i]].stype = "weekly"}
    IN  IF hits = {} THEN 0 ELSE CHOOSE i \in hits : \A i2 \in hits : i <= i2

\* schedule_jobs: the jobs registered, up to the place where it raises
Registered(j, list) ==
    {list[i] : i \in {i2 \in 1 .. Len(list) :
        /\ FirstWeekly(j, list) = 0 \/ i2 < FirstWeekly(j, list)
        /\ Schedulable(j, list[i2])
        /\ j[list[i2]].stype \in {"daily", "hourly"}}}

DeadLoops == {l \in LoopIds : loop[l].st = "dead"}
Sleeping == [st |-> "sleep", todo |-> {}, cur |-> 0]
Dead == [st |-> "dead", todo |-> {}, cur |-> 0]

\* start_scheduler, with at most cap loop threads alive
StartSchedulerWith(cap) ==
    /\ IF is_running
         THEN /\ UNCHANGED <<is_running, registry, due, loop, jobs>>
         ELSE /\ is_running' = TRUE
              /\ registry' = Registered(jobs, crawl_jobs)
              /\ IF FirstWeekly(jobs, crawl_jobs) # 0
                   THEN /\ UNCHANGED loop
                   ELSE /\ Cardinality(LoopIds \ DeadLoops) < cap
                        /\ loop' = [loop EXCEPT
                                      ![CHOOSE l \in DeadLoops : TRUE] = Sleeping]
              \* a new entry of the schedule library is due at its next time
              /\ due' = (due \ registry') \cap
                          Live(crawl_jobs, registry', loop', workers)
              /\ jobs' = Collect(jobs, Live(crawl_jobs, registry', loop', workers))
    /\ UNCHANGED <<crawl_jobs, workers, facade>>
    /\ UNCHANGED <<ivars, rvars, pvars>>

StartScheduler == StartSchedulerWith(MaxLoops)

\* start_scheduler while a thread that an earlier stop_scheduler left asleep
\* is still alive
StartSchedulerAgain ==
    /\ DeadLoops # LoopIds
    /\ StartSchedulerWith(MaxLoops + MaxStale)

\* stop_scheduler: the flag is cleared; join(timeout=5) waits for the thread
\* at most five seconds and leaves it alive
StopScheduler ==
    /\ is_running' = FALSE
    /\ UNCHANGED <<jobs, crawl_jobs, registry, due, loop, workers, facade>>
    /\ UNCHANGED <<ivars, rvars, pvars>>

\* the clock reaches the trigger time of a recurring job
TriggerTimeReached(k) ==
    /\ jobs[k].stype \in Recurring
    /\ k \notin due
    /\ due' = due \cup {k}
    /\ UNCHANGED <<jobs, crawl_jobs, is_running, registry, loop, workers, facade>>
    /\ UNCHANGED <<ivars, rvars, pvars>>

\* run_scheduler: while self.is_running, and the start of run_pending, which
\* lists the registered jobs that are due
LoopWake(l) ==
    /\ loop[l].st = "sleep"
    /\ loop' = [loop EXCEPT ![l] =
                  IF ~is_running THEN Dead
                  ELSE IF registry \cap due = {} THEN Sleeping
                  ELSE [st |-> "run", todo |-> registry \cap due, cur |-> 0]]
    /\ UNCHANGED <<jobs, crawl_jobs, is_running, registry, due, workers, facade>>
    /\ UNCHANGED <<ivars, rvars, pvars>>

\* run_pending calls execute_crawl_job for a listed job, in the loop's thread:
\* up to the crawl
LoopRunJob(l, k) ==
    /\ loop[l].st = "run" /\ loop[l].cur = 0 /\ k \in loop[l].todo
    /\ loop' = [loop EXCEPT ![l].cur = k, ![l].todo = @ \ {k}]
    /\ jobs' = UpdateJobStatus(jobs, crawl_jobs, jobs[k].id, "running", TRUE)
    /\ UNCHANGED <<crawl_jobs, is_running, registry, due, workers, facade>>
    /\ UNCHANGED <<ivars, rvars, pvars>>

\* execute_crawl_job in the loop's thread, from the crawl to its end; the
\* schedule library then sets the entry's next time; after the last listed
\* job the thread sleeps a minute
LoopFinishJob(l, out) ==
    /\ loop[l].cur # 0
    /\ loop' = [loop EXCEPT ![l].cur = 0,
                            ![l].st = IF loop[l].todo = {} THEN "sleep" ELSE "run"]
    /\ LET j2 == UpdateJobStatus(jobs, crawl_jobs, jobs[loop[l].cur].id,
                                 EndStatus(out), out # "raise")
       IN  jobs' = Collect(j2, Live(crawl_jobs, registry, loop', workers))
    /\ due' = (due \ {loop[l].cur}) \cap Live(crawl_jobs, registry, loop', workers)
    /\ UNCHANGED <<crawl_jobs, is_running, registry, workers, facade>>
    /\ UNCHANGED <<ivars, rvars, pvars>>

\* ------------------------------------------- the job list under threads
\* add_crawl_job and remove_crawl_job take no lock; a thread switch falls
\* between reading self.crawl_jobs and writing it.
Idle == [st |-> "idle"]

\* add_crawl_job, the job dict: its id is read from the length of the list
AddBuild(stype, params) ==
    /\ adder = Idle
    /\ adder' = [st |-> "built", job |-> NewJob(NextId(crawl_jobs), stype, params)]
    /\ UNCHANGED <<jobs, crawl_jobs, is_running, registry, due, loop, workers,
                   facade, remover, removed_ids>>
    /\ UNCHANGED <<ivars, pvars>>

\* add_crawl_job, self.crawl_jobs.append(job), up to its return
AddAppend ==
    /\ adder # Idle
    /\ FreeKeys # {}
    /\ crawl_jobs' = Append(crawl_jobs, FreshKey)
    /\ jobs' = [jobs EXCEPT ![FreshKey] = adder.job]
    /\ adder' = Idle
    /\ UNCHANGED <<is_running, registry, due, loop, workers, facade, remover,
                   removed_ids>>
    /\ UNCHANGED <<ivars, pvars>>

\* remove_crawl_job, the list comprehension over self.crawl_jobs
RemoveFilter(id) ==
    /\ remover = Idle
    /\ remover' = [st |-> "filtered", list |-> Without(jobs, crawl_jobs, id)]
    /\ removed_ids' = removed_ids \cup {id}
    /\ UNCHANGED <<jobs, crawl_jobs, is_running, registry, due, loop, workers,
                   facade, adder>>
    /\ UNCHANGED <<ivars, pvars>>

\* remove_crawl_job, the assignment to self.crawl_jobs, up to its return
RemoveAssign ==
    /\ remover # Idle
    /\ crawl_jobs' = remover.list
    /\ remover' = Idle
    /\ UNCHANGED <<jobs, is_running, registry, due, loop, workers, facade,
                   adder, removed_ids>>
    /\ UNCHANGED <<ivars, pvars>>

RaceNext ==
    \/ \E ty \in Types, pa \in Params : AddBuild(ty, pa)
    \/ AddAppend
    \/ \E id \in Keys : RemoveFilter(id)
    \/ RemoveAssign

SchedInit ==
    /\ jobs = [k \in Keys |-> NoJob]
    /\ crawl_jobs = <<>>
    /\ is_running = FALSE
    /\ registry = {}
    /\ due = {}
    /\ loop = [l \in LoopIds |-> Dead]
    /\ workers = {}
    /\ facade = 0
    /\ adder = Idle
    /\ remover = Idle
    /\ removed_ids = {}
    /\ tracked = 0

\* the job list: add_crawl_job, remove_crawl_job, find_or_create_manual_job
JobsNext ==
    \/ \E ty \in Types, pa \in Params : AddCrawlJob(ty, pa)
    \/ \E id \in Keys : RemoveCrawlJob(id)
    \/ \E pa \in Params : FindOrCreateManualJob(pa)

\* the job list with find_or_create_manual_job called on its own
FindNext ==
    \/ \E ty \in Types, pa \in Params : AddCrawlJob(ty, pa)
    \/ \E id \in Keys : RemoveCrawlJob(id)
    \/ \E pa \in ManualParams : FindOrCreateManualJob(pa)

\* the executions started by callers: run_job_now and crawl_and_index
ExecNext ==
    \/ \E id \in Keys : RunJobNow(id)
    \/ \E w \in workers : WorkerStart(w)
    \/ \E w \in workers, out \in Outcomes : WorkerFinish(w, out)
    \/ \E pa \in Params : CrawlAndIndexStart(pa)
    \/ \E out \in Outcomes : CrawlAndIndexFinish(out)

\* the background loop: start_scheduler, stop_scheduler, run_scheduler
LoopNext ==
    \/ StartScheduler
    \/ StopScheduler
    \/ \E k \in Keys : TriggerTimeReached(k)
    \/ \E l \in LoopIds : LoopWake(l)
    \/ \E l \in LoopIds, k \in Keys : LoopRunJob(l, k)
    \/ \E l \in LoopIds, out \in Outcomes : LoopFinishJob(l, out)

\* the loop with manual crawls of the facade beside it
ManualNext ==
    \/ \E ty \in {"daily", "manual"}, pa \in Params : AddCrawlJob(ty, pa)
    \/ \E id \in Keys : RemoveCrawlJob(id)
    \/ \E pa \in Params : CrawlAndIndexStart(pa)
    \/ \E out \in Outcomes : CrawlAndIndexFinish(out)
    \/ LoopNext

\* the loop stopped and started again, over jobs that stay in the list
StopNext ==
    \/ \E ty \in Recurring, pa \in Params : AddCrawlJob(ty, pa)
    \/ StartScheduler
    \/ StartSchedulerAgain
    \/ StopScheduler
    \/ \E k \in Keys : TriggerTimeReached(k)
    \/ \E l \in LoopIds : LoopWake(l)
    \/ \E l \in LoopIds, k \in Keys : LoopRunJob(l, k)
    \/ \E l \in LoopIds, out \in Outcomes : LoopFinishJob(l, out)

\* ---------------------------------------------------------------- crawler
\* One WebCrawler is followed at a time. execute_crawl_job makes a new one for
\* every run; the facade makes one in SearchEngine.__init__ and calls crawl on
\* it in every crawl_and_index.
CUrls == {"a", "b", "c"}
NoLinks == [u \in CUrls |-> <<>>]
\* the webs crawled: a page that holds a link twice, pages that link to each
\* other and to the same page, a page that links to itself
Webs ==
    {NoLinks,
     [NoLinks EXCEPT !["a"] = <<"b", "b", "c">>, !["b"] = <<"a", "c">>],
     [NoLinks EXCEPT !["a"] = <<"a", "b">>, !["c"] = <<"b">>]}
\* the seed lists given: none, one seed, a seed twice, two seeds
SeedLists == {<<>>, <<"a">>, <<"c">>, <<"a", "a">>, <<"b", "c">>}
FetchOutcomes == {"ok", "fail", "robots"}
    \* ok: an html page; fail: session.get or raise_for_status raises, or the
    \* content type is not html; robots: can_fetch says no

\* url in self.visited_urls
IsVisited_Never(v, u) == FALSE
IsVisited(v, u) == u \in v

\* self.url_queue.popleft(): the queue that is left
PopLeft_Keep(q) == q
PopLeft(q) == Tail(q)

\* crawl: for url in seed_urls: self.url_queue.append((url, 0))
SeedEntries(ss) == [i \in 1 .. Len(ss) |-> <<ss[i], 0>>]

\* crawl_page: for link in links: if link not in self.visited_urls: append
NewLinks(v, u) == SelectSeq(links[u], LAMBDA l : ~IsVisited(v, l))
Enqueue(q, ls, d) == q \o [i \in 1 .. Len(ls) |-> <<ls[i], d>>]

\* crawl: while self.url_queue and len(self.crawled_pages) < self.max_pages
LoopContinues == url_queue # <<>> /\ Len(crawled_pages) < max_pages

\* crawl_page: the early return None before anything is fetched
CrawlPageSkips(u, d) ==
    \/ IsVisited(visited_urls, u)
    \/ Len(crawled_pages) >= max_pages
    \/ d > max_depth

\* the web between two crawls
WebChanges(w) ==
    /\ cst # "loop"
    /\ links # w
    /\ links' = w
    /\ UNCHANGED <<max_pages, max_depth, visited_urls, url_queue, crawled_pages,
                   cst, seeds, runs, fetched, refused, owner>>
    /\ UNCHANGED <<ivars, svars, tvars, hvars, qvars>>

\* SearchEngine.__init__: self.crawler = WebCrawler()
SearchEngineInit ==
    /\ cst # "loop"
    /\ owner = "job"
    /\ max_pages' = MaxPages
    /\ max_depth' = MaxDepth
    /\ visited_urls' = {}
    /\ crawled_pages' = <<>>
    /\ url_queue' = <<>>
    /\ cst' = "idle"
    /\ seeds' = <<>>
    /\ runs' = 0
    /\ fetched' = {}
    /\ refused' = {}
    /\ owner' = "facade"
    /\ UNCHANGED links
    /\ UNCHANGED <<ivars, svars, tvars, hvars, qvars>>

\* execute_crawl_job: crawler = WebCrawler(max_pages, max_depth) and
\* crawler.crawl(job['seed_urls']) up to its loop
ExecuteCrawlJobCrawl(ss, mp, md) ==
    /\ cst # "loop"
    /\ max_pages' = mp
    /\ max_depth' = md
    /\ visited_urls' = {}
    /\ crawled_pages' = <<>>
    /\ url_queue' = SeedEntries(ss)
    /\ cst' = "loop"
    /\ seeds' = ss
    /\ runs' = 1
    /\ fetched' = {}
    /\ refused' = {}
    /\ owner' = "job"
    /\ UNCHANGED links
    /\ UNCHANGED <<ivars, svars, tvars, hvars, qvars>>

\* crawl_and_index: self.crawler.max_pages = max_pages, self.crawler.max_depth
\* = max_depth and self.crawler.crawl(seed_urls) up to its loop
CrawlAndIndexCrawl(ss, mp, md) ==
    /\ cst # "loop"
    /\ owner = "facade"
    /\ runs < MaxRuns
    /\ max_pages' = mp
    /\ max_depth' = md
    /\ url_queue' = url_queue \o SeedEntries(ss)
    /\ cst' = "loop"
    /\ seeds' = ss
    /\ runs' = runs + 1
    /\ fetched' = {}
    /\ refused' = {}
    /\ UNCHANGED <<links, visited_urls, crawled_pages, owner>>
    /\ UNCHANGED <<ivars, svars, tvars, hvars, qvars>>

\* crawl: one turn of the while loop, with crawl_page
CrawlLoopStep(out) ==
    /\ cst = "loop"
    /\ LoopContinues
    /\ LET u == Head(url_queue)[1]
           d == Head(url_queue)[2]
           q == PopLeft(url_queue)
       IN  IF IsVisited(visited_urls, u) \/ CrawlPageSkips(u, d)
             THEN /\ out = "ok"
                  /\ url_queue' = q
                  /\ UNCHANGED <<visited_urls, crawled_pages, fetched, refused>>
           ELSE IF out \in {"robots", "fail"}
             THEN /\ url_queue' = q
                  /\ refused' = refused \cup {u}
                  /\ UNCHANGED <<visited_urls, crawled_pages, fetched>>
           ELSE /\ visited_urls' = visited_urls \cup {u}
                /\ url_queue' = Enqueue(q, NewLinks(visited_urls', u), d + 1)
                /\ crawled_pages' = Append(crawled_pages, [url |-> u, depth |-> d])
                /\ fetched' = fetched \cup {u}
                /\ UNCHANGED refused
    /\ UNCHANGED <<links, max_pages, max_depth, cst, seeds, runs, owner>>
    /\ UNCHANGED <<ivars, svars, tvars, hvars, qvars>>

\* crawl: the loop is left and self.crawled_pages is returned
CrawlReturn ==
    /\ cst = "loop"
    /\ ~LoopContinues
    /\ cst' = "returned"
    /\ UNCHANGED <<links, max_pages, max_depth, visited_urls, url_queue,
                   crawled_pages, seeds, runs, fetched, refused, owner>>
    /\ UNCHANGED <<ivars, svars, tvars, hvars, qvars>>

\* SearchEngine.__init__: WebCrawler() (its limits are set before every crawl)
CrawlInit ==
    /\ links = NoLinks
    /\ max_pages = MaxPages
    /\ max_depth = MaxDepth
    /\ visited_urls = {}
    /\ url_queue = <<>>
    /\ crawled_pages = <<>>
    /\ cst = "idle"
    /\ seeds = <<>>
    /\ runs = 0
    /\ fetched = {}
    /\ refused = {}
    /\ owner = "facade"

CrawlNext ==
    \/ \E w \in Webs : WebChanges(w)
    \/ SearchEngineInit
    \/ \E ss \in SeedLists, mp \in 1 .. MaxPages, md \in 0 .. MaxDepth :
          ExecuteCrawlJobCrawl(ss, mp, md)
    \/ \E ss \in SeedLists, mp \in 1 .. MaxPages, md \in 0 .. MaxDepth :
          CrawlAndIndexCrawl(ss, mp, md)
    \/ \E out \in FetchOutcomes : CrawlLoopStep(out)
    \/ CrawlReturn

\* ------------------------------------------------ update_job_status, timed
\* update_job_status on one job dict, with the clock and the job's
\* schedule_time spelled out. A datetime is [y, mo, d, h, mi, s, us]; a str is
\* the tuple of its characters.
NoneVal == <<"None">>

Datetime(y, mo, d, h, mi, s, us) ==
    [y |-> y, mo |-> mo, d |-> d, h |-> h, mi |-> mi, s |-> s, us |-> us]
Dates == {<<2023, 2, 28>>, <<2023, 12, 31>>, <<2024, 1, 1>>, <<2024, 2, 28>>,
          <<2024, 2, 29>>, <<2024, 4, 30>>}
DayTimes == {<<10, 0, 0, 0>>, <<23, 59, 30, 250000>>}
Clocks == {Datetime(a[1], a[2], a[3], t[1], t[2], t[3], t[4]) :
              a \in Dates, t \in DayTimes}
\* the order of time: field by field
Fields(dt) == <<dt.y, dt.mo, dt.d, dt.h, dt.mi, dt.s, dt.us>>
RECURSIVE LexLess(_, _)
LexLess(f, g) ==
    IF f = <<>> THEN FALSE
    ELSE Head(f) < Head(g) \/ (Head(f) = Head(g) /\ LexLess(Tail(f), Tail(g)))
ScheduleTimes ==
    {<<"0", "2", ":", "0", "0">>, <<"2", "3", ":", "5", "9">>,
     <<"1", "0", ":", "3", "0">>, <<"2", ":", "0", "0">>,
     <<"2", "4", ":", "0", "0">>, <<"0", "2", ":", "6", "0">>}

IsLeap(y) == (y % 4 = 0 /\ y % 100 # 0) \/ y % 400 = 0
DaysInMonth(y, mo) ==
    IF mo = 2 THEN (IF IsLeap(y) THEN 29 ELSE 28)
    ELSE IF mo \in {4, 6, 9, 11} THEN 30 ELSE 31

\* dt + timedelta(days=1)
PlusOneDay_Same(dt) == dt
PlusOneDay(dt) ==
    IF dt.d < DaysInMonth(dt.y, dt.mo) THEN [dt EXCEPT !.d = @ + 1]
    ELSE IF dt.mo < 12 THEN [dt EXCEPT !.mo = @ + 1, !.d = 1]
    ELSE [dt EXCEPT !.y = @ + 1, !.mo = 1, !.d = 1]

\* the slices job['schedule_time'][:2] and job['schedule_time'][3:]
SliceTo2(cs) == SubSeq(cs, 1, IF Len(cs) < 2 THEN Len(cs) ELSE 2)
SliceFrom3(cs) == SubSeq(cs, 4, Len(cs))

DigitVal == ("0" :> 0) @@ ("1" :> 1) @@ ("2" :> 2) @@ ("3" :> 3) @@ ("4" :> 4)
            @@ ("5" :> 5) @@ ("6" :> 6) @@ ("7" :> 7) @@ ("8" :> 8) @@ ("9" :> 9)
RECURSIVE DecVal(_)
DecVal(cs) ==
    IF cs = <<>> THEN 0
    ELSE 10 * DecVal(SubSeq(cs, 1, Len(cs) - 1)) + DigitVal[cs[Len(cs)]]
\* int(str) of a str of digits and colons: it raises ValueError unless the
\* str is digits
PyIntRaises(cs) == cs = <<>> \/ \E i \in 1 .. Len(cs) : cs[i] \notin DOMAIN DigitVal
PyInt(cs) == DecVal(cs)

\* dt.replace(hour=h, minute=mi, second=0, microsecond=0); it raises
\* ValueError for an hour or a minute out of range
ReplaceRaises(h, mi) == h > 23 \/ mi > 59
Replace(dt, h, mi) == [dt EXCEPT !.h = h, !.mi = mi, !.s = 0, !.us = 0]

\* dt.isoformat(): the fields in order, the microseconds left out when zero
IsoFormat(dt) ==
    IF dt.us = 0 THEN <<dt.y, dt.mo, dt.d, dt.h, dt.mi, dt.s>>
    ELSE <<dt.y, dt.mo, dt.d, dt.h, dt.mi, dt.s, dt.us>>

\* update_job_status, the try block for a daily job set to completed: it
\* ends in the except clause
NextRunRaises(st) ==
    \/ PyIntRaises(SliceTo2(st))
    \/ PyIntRaises(SliceFrom3(st))
    \/ ReplaceRaises(PyInt(SliceTo2(st)), PyInt(SliceFrom3(st)))
NextRunDaily(clock, st) ==
    Replace(PlusOneDay(clock), PyInt(SliceTo2(st)), PyInt(SliceFrom3(st)))

NoTJob == [stype |-> "none", schedule_time |-> <<>>, status |-> "none",
           last_run |-> NoneVal, next_run |-> NoneVal]
\* add_crawl_job: the job dict
NewTJob(stype, st) ==
    [stype |-> stype, schedule_time |-> st, status |-> "scheduled",
     last_run |-> NoneVal, next_run |-> NoneVal]

\* the next_run a caller passes
ExplicitNextRuns == {IsoFormat(Datetime(2024, 6, 1, 12, 0, 0, 0))}

\* update_job_status(job_id, status, last_run, next_run) on the job found
UpdatedJob(j, clock, status, lastRun, nextRun) ==
    LET r == [j EXCEPT !.status = status,
                       !.last_run = IF lastRun # NoneVal THEN lastRun ELSE @]
    IN  IF nextRun # NoneVal THEN [r EXCEPT !.next_run = nextRun]
        ELSE IF status = "completed" /\ r.stype = "daily"
          THEN IF NextRunRaises(r.schedule_time)
                 THEN r
                 ELSE [r EXCEPT
                         !.next_run = IsoFormat(NextRunDaily(clock, r.schedule_time)),
                         !.status = "scheduled"]
        ELSE r

\* add_crawl_job with a schedule type and a schedule time
NewTimedJob(stype, st) ==
    /\ tjob' = NewTJob(stype, st)
    /\ UNCHANGED now
    /\ UNCHANGED <<ivars, svars, cvars, hvars, qvars>>

\* time passes
ClockAdvances(t) ==
    /\ LexLess(Fields(now), Fields(t))
    /\ now' = t
    /\ UNCHANGED tjob
    /\ UNCHANGED <<ivars, svars, cvars, hvars, qvars>>

UpdateJobStatusTimed(status, lastRun, nextRun) ==
    /\ tjob # NoTJob
    /\ tjob' = UpdatedJob(tjob, now, status, lastRun, nextRun)
    /\ UNCHANGED now
    /\ UNCHANGED <<ivars, svars, cvars, hvars, qvars>>

StatusInit ==
    /\ now = Datetime(2023, 2, 28, 10, 0, 0, 0)
    /\ tjob = NoTJob

StatusNext ==
    \/ \E ty \in Types, st \in ScheduleTimes : NewTimedJob(ty, st)
    \/ \E t \in Clocks : ClockAdvances(t)
    \/ \E st \in Statuses, lr \in {NoneVal, IsoFormat(now)},
          nr \in {NoneVal} \cup ExplicitNextRuns :
          UpdateJobStatusTimed(st, lr, nr)

\* --------------------------------------------------- the configuration file
\* One CrawlScheduler and its crawl_config.json, one call at a time. A job
\* dict is a record as in the job list above; what json.dump writes for it
\* has null for None and a string for a timestamp.
\* json.dump and json.load of a job dict: its last_run and next_run
DumpJob(job) ==
    [job EXCEPT !.last_run = IF @ = 0 THEN "null" ELSE "string",
                !.next_run = IF @ = 0 THEN "null" ELSE "string"]
LoadJob(obj) ==
    [obj EXCEPT !.last_run = IF @ = "null" THEN 0 ELSE 1,
                !.next_run = IF @ = "null" THEN 0 ELSE 1]

\* a value, in Python (what self.crawl_jobs can hold: a list, a str, a dict)
\* and in JSON (null, number, string, array, object): its type and, of a list,
\* the jobs in it and the number of other items
Value(t, joblist, others) == [t |-> t, jobs |-> joblist, n |-> others]
JobList(joblist) == Value("list", joblist, 0)

JsonDump(v) ==
    Value(IF v.t = "list" THEN "array"
          ELSE IF v.t = "str" THEN "string" ELSE "object",
          [i \in 1 .. Len(v.jobs) |-> DumpJob(v.jobs[i])], v.n)
JsonLoad(jv) ==
    Value(IF jv.t = "array" THEN "list"
          ELSE IF jv.t = "string" THEN "str" ELSE "dict",
          [i \in 1 .. Len(jv.jobs) |-> LoadJob(jv.jobs[i])], jv.n)

\* the file: missing; there but open() raises; text that is no JSON; a JSON
\* document with its top value, and whether that has a key crawl_jobs and
\* with what value
FileOf(st, top, has, val) == [st |-> st, top |-> top, has |-> has, val |-> val]
NoValue == Value("null", <<>>, 0)
Missing == FileOf("missing", "none", FALSE, NoValue)
NotJson == FileOf("text", "none", FALSE, NoValue)
\* files this program did not write
ForeignFiles ==
    {Missing, FileOf("unreadable", "none", FALSE, NoValue), NotJson,
     FileOf("json", "array", FALSE, NoValue),
     FileOf("json", "object", FALSE, NoValue),
     FileOf("json", "object", TRUE, NoValue),
     FileOf("json", "object", TRUE, Value("number", <<>>, 0)),
     FileOf("json", "object", TRUE, Value("string", <<>>, 3)),
     FileOf("json", "object", TRUE, Value("array", <<>>, 2)),
     FileOf("json", "object", TRUE, Value("object", <<>>, 1))}

\* load_configuration: the value of self.crawl_jobs it ends with. A top value
\* that is no object has no get (AttributeError); len() of None or of a number
\* raises TypeError in the log line; both end in the except clause.
LoadConfiguration(file) ==
    IF file.st = "missing" THEN JobList(<<>>)
    ELSE IF file.st # "json" THEN JobList(<<>>)
    ELSE IF file.top # "object" THEN JobList(<<>>)
    ELSE IF ~file.has THEN JobList(<<>>)
    ELSE IF file.val.t \in {"null", "number"} THEN JobList(<<>>)
    ELSE JsonLoad(file.val)

\* save_configuration: the file it leaves. open() may raise, and the file is
\* as before; a write may raise after open() has truncated the file; the
\* except clause logs either and the caller goes on.
SaveOutcomes == {"saved", "open_raises", "write_raises"}
SaveConfiguration(file, v, out) ==
    IF out = "saved" THEN FileOf("json", "object", TRUE, JsonDump(v))
    ELSE IF out = "open_raises" THEN file
    ELSE NotJson

\* CrawlScheduler.__init__: a scheduler is made on the data directory
SchedulerInit ==
    /\ saved_jobs' = LoadConfiguration(config_file)
    /\ UNCHANGED config_file
    /\ UNCHANGED <<ivars, svars, cvars, tvars, hvars, kvars, xvars>>

\* add_crawl_job, with its save_configuration
AddCrawlJobSaved(stype, params, out) ==
    /\ saved_jobs.t = "list" /\ saved_jobs.n = 0
    /\ Len(saved_jobs.jobs) < MaxJobs
    /\ saved_jobs' = JobList(Append(saved_jobs.jobs,
                         NewJob(NextId(saved_jobs.jobs), stype, params)))
    /\ config_file' = SaveConfiguration(config_file, saved_jobs', out)
    /\ UNCHANGED <<ivars, svars, cvars, tvars, hvars, kvars, xvars>>

\* remove_crawl_job, with its save_configuration
RemoveCrawlJobSaved(id, out) ==
    /\ saved_jobs.t = "list" /\ saved_jobs.n = 0
    /\ saved_jobs' = JobList(SelectSeq(saved_jobs.jobs, LAMBDA job : job.id # id))
    /\ config_file' = SaveConfiguration(config_file, saved_jobs', out)
    /\ UNCHANGED <<ivars, svars, cvars, tvars, hvars, kvars, xvars>>

\* update_job_status, with its save_configuration
UpdateJobStatusSaved(id, status, lastRun, out) ==
    /\ saved_jobs.t = "list" /\ saved_jobs.n = 0
    /\ saved_jobs' = JobList(UpdateJobStatus(saved_jobs.jobs,
                         [i \in 1 .. Len(saved_jobs.jobs) |-> i], id, status, lastRun))
    /\ config_file' = SaveConfiguration(config_file, saved_jobs', out)
    /\ UNCHANGED <<ivars, svars, cvars, tvars, hvars, kvars, xvars>>

\* the file is deleted, made unreadable or written by something else
FileReplaced(file) ==
    /\ config_file' = file
    /\ UNCHANGED saved_jobs
    /\ UNCHANGED <<ivars, svars, cvars, tvars, hvars, kvars, xvars>>

ConfigInit ==
    /\ config_file = Missing
    /\ saved_jobs = JobList(<<>>)

ConfigNext ==
    \/ SchedulerInit
    \/ \E ty \in {"daily", "manual"}, out \in SaveOutcomes :
          AddCrawlJobSaved(ty, CrawlParams(<<"c">>, 1, 1), out)
    \/ \E id \in Keys, out \in SaveOutcomes : RemoveCrawlJobSaved(id, out)
    \/ \E id \in Keys, st \in {"running", "completed"}, lr \in BOOLEAN,
          out \in SaveOutcomes : UpdateJobStatusSaved(id, st, lr, out)
    \/ \E file \in ForeignFiles : FileReplaced(file)

\* ----------------------------------------------------------------- ranking
\* A text is a tuple of characters. Floats are kept in fixed point: a score in
\* thousandths, a weight in tenths, so a ranking score in ten-thousandths
\* (quotients rounded down). Time is counted in periods of 30 days.
Lower(s) ==
    [i \in 1 .. Len(s) |->
        CASE s[i] = "A" -> "a" [] s[i] = "P" -> "p" [] s[i] = "I" -> "i"
          [] OTHER -> s[i]]

\* str.split(): the words between runs of blanks
RECURSIVE Split(_)
Split(s) ==
    IF Len(s) = 0 THEN <<>>
    ELSE IF s[1] = " " THEN Split(Tail(s))
    ELSE LET ends == {i \in 1 .. Len(s) : i = Len(s) \/ s[i + 1] = " "}
             n == CHOOSE i \in ends : \A i2 \in ends : i <= i2
         IN  <<SubSeq(s, 1, n)>> \o Split(SubSeq(s, n + 1, Len(s)))

\* sub in s
Contains(sub, s) ==
    \E i \in 1 .. Len(s) - Len(sub) + 1 : SubSeq(s, i, i + Len(sub) - 1) = sub
\* s.find(sub)
Find(sub, s) ==
    IF ~Contains(sub, s) THEN -1
    ELSE LET at == {i \in 1 .. Len(s) - Len(sub) + 1 :
                       SubSeq(s, i, i + Len(sub) - 1) = sub}
         IN  (CHOOSE i \in at : \A i2 \in at : i <= i2) - 1
\* s.count(sub), sub not empty: occurrences that do not overlap
RECURSIVE Count(_, _)
Count(sub, s) ==
    IF Len(s) < Len(sub) THEN 0
    ELSE IF SubSeq(s, 1, Len(sub)) = sub
      THEN 1 + Count(sub, SubSeq(s, Len(sub) + 1, Len(s)))
      ELSE Count(sub, Tail(s))

RECURSIVE SumSeq(_)
SumSeq(ns) == IF Len(ns) = 0 THEN 0 ELSE Head(ns) + SumSeq(Tail(ns))

\* calculate_title_score, what one term adds
TermScore_NoWord(term, text) ==
    IF ~Contains(term, text) THEN 0 ELSE IF term = text THEN 10 ELSE 2
TermScore(term, text) ==
    IF ~Contains(term, text) THEN 0
    ELSE IF term = text THEN 10
    ELSE IF Contains(<<" ">> \o term \o <<" ">>, <<" ">> \o text \o <<" ">>)
      THEN 5
    ELSE 2

CalculateTitleScore(query_terms, title) ==
    IF Len(title) = 0 THEN 0
    ELSE 1000 * SumSeq([i \in 1 .. Len(query_terms) |->
                          TermScore(Lower(query_terms[i]), Lower(title))])

CalculateUrlScore(query_terms, url) ==
    IF Len(url) = 0 THEN 0
    ELSE 1000 * SumSeq([i \in 1 .. Len(query_terms) |->
                          IF Contains(Lower(query_terms[i]), Lower(url))
                            THEN 1 ELSE 0])

\* math.log(n / d)
Log(n, d) ==
    CASE n = d -> 0
      [] n = 1 /\ d = 2 -> -693
      [] n = 2 /\ d = 1 -> 693
      [] n = 2 /\ d = 3 -> -405
      [] n = 3 /\ d = 1 -> 1099
      [] n = 3 /\ d = 2 -> 405
      [] n = 3 /\ d = 4 -> -288

CalculateTfIdf(term, document, all_documents) ==
    LET tf == (1000 * Count(Lower(term), Lower(document)))
                 \div Len(Split(document))
        df == Cardinality({i \in 1 .. Len(all_documents) :
                  Contains(Lower(term), Lower(all_documents[i]))})
        idf == Log(Len(all_documents), df + 1)
    IN  (tf * idf) \div 1000

CalculateContentScore(query_terms, content, all_contents) ==
    IF Len(content) = 0 THEN 0
    ELSE SumSeq([i \in 1 .. Len(query_terms) |->
           LET term_lower == Lower(query_terms[i])
               occurrences == Count(term_lower, Lower(content))
               tf_idf == CalculateTfIdf(query_terms[i], content, all_contents)
               first_occurrence == Find(term_lower, Lower(content))
               position_bonus ==
                   IF first_occurrence = -1 THEN 1000
                   ELSE 1000 - (first_occurrence * 500) \div Len(content)
           IN  (occurrences * tf_idf * position_bonus) \div 1000])

\* math.exp(-age_days / 30), the crawl age_days / 30 periods back
CalculateFreshnessScore(crawl_time, now_) ==
    CASE now_ - crawl_time = 0 -> 1000
      [] now_ - crawl_time = 1 -> 368
      [] now_ - crawl_time = 2 -> 135
      [] now_ - crawl_time = 3 -> 50
      [] now_ - crawl_time = 4 -> 18

\* the bell curve has 1 at 1500 characters and exp(-1/2) at 750 and 2250
CalculateContentLengthScore(content_length) ==
    IF content_length = 0 THEN 0
    ELSE IF content_length < 100 THEN 100
    ELSE IF content_length > 10000 THEN 300
    ELSE IF content_length = 1500 THEN 1000
    ELSE 607

CalculateDepthPenalty(depth) == depth * 100

\* rank_results: the scores of one hit; a hit has no key headings
ScoreBreakdown(hit, query_terms, all_contents, now_) ==
    [title_score |-> CalculateTitleScore(query_terms, hit.title),
     content_score |-> CalculateContentScore(query_terms, hit.content, all_contents),
     meta_score |-> CalculateTitleScore(query_terms, hit.meta_description),
     heading_score |-> CalculateTitleScore(query_terms, <<>>),
     url_score |-> CalculateUrlScore(query_terms, hit.url),
     freshness_score |-> CalculateFreshnessScore(hit.crawl_time, now_),
     content_length_score |-> CalculateContentLengthScore(hit.content_length),
     depth_penalty |-> CalculateDepthPenalty(hit.depth)]

\* rank_results: total_score
TotalScore(b, w, whoosh_score) ==
    b.title_score * w.title_match
    + b.content_score * w.content_match
    + b.meta_score * w.meta_description_match
    + b.heading_score * w.heading_match
    + b.url_score * w.url_match
    + b.freshness_score * w.freshness
    + b.content_length_score * w.content_length
    - b.depth_penalty * (IF w.depth_penalty < 0 THEN -w.depth_penalty
                         ELSE w.depth_penalty)
    + whoosh_score

\* rank_results: the hit dict with result['ranking_score'] and
\* result['score_breakdown'] set
Scored(hit, query_terms, all_contents, w, now_) ==
    LET b == ScoreBreakdown(hit, query_terms, all_contents, now_)
    IN  [ranking_score |-> TotalScore(b, w, hit.score), score_breakdown |-> b]
          @@ hit

\* list.sort(key=ranking_score, reverse=True) is stable: a hit goes behind
\* the hits before it that score as much or more
InsertByScore_Before(sorted, hit) ==
    LET n == Cardinality({i \in 1 .. Len(sorted) :
                             sorted[i].ranking_score > hit.ranking_score})
    IN  SubSeq(sorted, 1, n) \o <<hit>> \o SubSeq(sorted, n + 1, Len(sorted))
InsertByScore(sorted, hit) ==
    LET n == Cardinality({i \in 1 .. Len(sorted) :
                             sorted[i].ranking_score >= hit.ranking_score})
    IN  SubSeq(sorted, 1, n) \o <<hit>> \o SubSeq(sorted, n + 1, Len(sorted))
RECURSIVE SortByScore(_)
SortByScore(hits) ==
    IF Len(hits) = 0 THEN <<>>
    ELSE InsertByScore(SortByScore(SubSeq(hits, 1, Len(hits) - 1)),
                       hits[Len(hits)])

DefaultWeights ==
    [title_match |-> 30, content_match |-> 10, meta_description_match |-> 20,
     heading_match |-> 25, url_match |-> 15, freshness |-> 10,
     content_length |-> 5, depth_penalty |-> -2]
\* dict.update
UpdatedWeights_Reset(w, new_weights) ==
    [k \in DOMAIN DefaultWeights \cup DOMAIN new_weights |->
        IF k \in DOMAIN new_weights THEN new_weights[k] ELSE DefaultWeights[k]]
UpdatedWeights(w, new_weights) ==
    [k \in DOMAIN w \cup DOMAIN new_weights |->
        IF k \in DOMAIN new_weights THEN new_weights[k] ELSE w[k]]

\* the hit dicts QueryEngine.search makes
FormattedResult(url, title, content, meta, score, len, crawled, depth) ==
    [url |-> url, title |-> title, content |-> content,
     meta_description |-> meta, score |-> score, content_length |-> len,
     crawl_time |-> crawled, depth |-> depth]
HitCatalogue ==
    <<FormattedResult(<<"a">>, <<"a">>, <<"a", " ", "b">>, <<>>, 5000, 1500, 1, 0),
      FormattedResult(<<"b">>, <<"a">>, <<"a", " ", "b">>, <<>>, 5000, 1500, 1, 0),
      FormattedResult(<<"a", "b">>, <<"A", " ", "b">>, <<>>, <<"a", "b">>,
                      0, 50, 0, 1)>>
\* the result lists ranked: none, one hit, two hits either way round
HitLists ==
    {[i \in 1 .. Len(ix) |-> HitCatalogue[ix[i]]] :
        ix \in {<<>>, <<3>>, <<1, 2>>, <<2, 1>>, <<3, 1>>, <<2, 3>>}}
Queries == {<<"a">>, <<"b">>, <<"A", " ", " ", "b">>}
WeightUpdates == {[title_match |-> 50], [freshness |-> 0, depth_penalty |-> -5]}
NoCall == [hits |-> <<>>, query |-> <<"-">>, weights |-> DefaultWeights]

\* QueryEngine.search returns a list of new hit dicts
QuerySearch(hits) ==
    /\ results' = hits
    /\ UNCHANGED <<weights, ranked, current_time, passed>>
    /\ UNCHANGED <<ivars, svars, cvars, tvars, hvars, fvars, xvars>>

\* rank_results on the caller's list: every dict of it gets its scores, and a
\* new list of the same dicts, sorted, is returned
RankResults(query_string) ==
    /\ IF Len(results) = 0
         THEN /\ ranked' = results
              /\ UNCHANGED results
         ELSE /\ results' =
                   [i \in 1 .. Len(results) |->
                      Scored(results[i], Split(Lower(query_string)),
                             [i2 \in 1 .. Len(results) |-> results[i2].content],
                             weights, current_time)]
              /\ ranked' = SortByScore(results')
    /\ passed' = [hits |-> results, query |-> query_string, weights |-> weights]
    /\ UNCHANGED <<weights, current_time>>
    /\ UNCHANGED <<ivars, svars, cvars, tvars, hvars, fvars, xvars>>

\* update_weights
UpdateWeights(new_weights) ==
    /\ weights' = UpdatedWeights(weights, new_weights)
    /\ UNCHANGED <<results, ranked, current_time, passed>>
    /\ UNCHANGED <<ivars, svars, cvars, tvars, hvars, fvars, xvars>>

\* thirty days go by
TimePasses ==
    /\ current_time < MaxTime
    /\ current_time' = current_time + 1
    /\ UNCHANGED <<weights, results, ranked, passed>>
    /\ UNCHANGED <<ivars, svars, cvars, tvars, hvars, fvars, xvars>>

RankInit ==
    /\ weights = DefaultWeights
    /\ results = <<>>
    /\ ranked = <<>>
    /\ current_time = 1
    /\ passed = NoCall

RankNext ==
    \/ \E hits \in HitLists : QuerySearch(hits)
    \/ \E q \in Queries : RankResults(q)
    \/ \E w \in WeightUpdates : UpdateWeights(w)
    \/ TimePasses

\* ------------------------------------------------ the title score, by itself
\* the titles scored: none, the term itself in either case, the term as a
\* word at either end, inside and twice, the term as a part of a word
Titles ==
    {<<>>, <<"A", "P", "I">>, <<"a", "p", "i">>, <<"A", "p", "i">>,
     <<"A", "P", "I", " ", "x">>, <<"x", " ", "A", "P", "I">>,
     <<"x", " ", "a", "p", "i", " ", "x">>, <<"x", "A", "P", "I">>,
     <<"A", "P", "I", "x">>, <<"x">>, <<"a", "p", "i", " ", "A", "P", "I">>,
     <<"x", " ", " ", "a", "p", "i">>}
\* the query strings rank_results is given
TitleQueries ==
    {<<>>, <<"A", "P", "I">>, <<"a", "p", "i">>, <<"p", "i">>, <<"x">>,
     <<"A", "P", "I", " ", "x">>, <<"a", "p", "i", " ", "A", "P", "I">>,
     <<" ", "A", "p", "i", " ">>, <<"x", " ", "p", "i">>, <<"i">>}
NoScore ==
    [query_string |-> <<>>, query_terms |-> <<>>, title |-> <<>>,
     title_score |-> 0]

\* rank_results: query_terms = query_string.lower().split() and
\* title_score = self.calculate_title_score(query_terms, result.get('title'))
TitleScoreOf(query_string, title) ==
    /\ scored' = [query_string |-> query_string,
                  query_terms |-> Split(Lower(query_string)),
                  title |-> title,
                  title_score |->
                      CalculateTitleScore(Split(Lower(query_string)), title)]
    /\ UNCHANGED <<parsed, returned, answer>>
    /\ UNCHANGED <<ivars, svars, cvars, tvars, hvars, fvars, kvars>>

TitleNext == \E q \in TitleQueries, t \in Titles : TitleScoreOf(q, t)

\* ------------------------------------------------------------------ parser
\* A page is the list of its elements in document order. An element has its
\* tag, the text in it and the element it lies in: the body, or a header (as
\* well nav, footer, aside), which extract_content takes out of the soup.
HeadingTags == <<"h1", "h2", "h3", "h4", "h5", "h6">>
Element(tag, within, text) == [tag |-> tag, within |-> within, text |-> text]
Elements ==
    {Element(tag, within, text) :
        tag \in {"h1", "h2", "h6", "p"}, within \in {"body", "header"},
        text \in {<<"x">>, <<" ", "x", " ", " ", "y">>}}
PageSources == UNION {[1 .. n -> Elements] : n \in 0 .. MaxElements}

\* clean_text: runs of blanks become one blank, and strip()
RECURSIVE JoinWords(_)
JoinWords(ws) ==
    IF Len(ws) = 0 THEN <<>>
    ELSE IF Len(ws) = 1 THEN ws[1]
    ELSE ws[1] \o <<" ">> \o JoinWords(Tail(ws))
CleanText(text) == JoinWords(Split(text))

\* extract_content: the soup without the elements it decomposes
Decomposed(soup) == SelectSeq(soup, LAMBDA e : e.within = "body")

\* extract_headings: for i in range(1, 7): for heading in soup.find_all(f'h{i}')
RECURSIVE HeadingsFrom(_, _)
HeadingsFrom(i, soup) ==
    IF i > 6 THEN <<>>
    ELSE LET found == SelectSeq(soup, LAMBDA e : e.tag = HeadingTags[i])
         IN  [n \in 1 .. Len(found) |->
                 [level |-> i, text |-> CleanText(found[n].text)]]
             \o HeadingsFrom(i + 1, soup)
ExtractHeadings(soup) == HeadingsFrom(1, soup)

NoPage == [soup |-> <<>>, headings |-> <<>>]

\* parse_page: extract_content works on the soup before extract_headings does
ParsePage(source) ==
    /\ parsed' = [soup |-> source,
                  headings |-> ExtractHeadings(Decomposed(source))]
    /\ UNCHANGED <<scored, returned, answer>>
    /\ UNCHANGED <<ivars, svars, cvars, tvars, hvars, fvars, kvars>>

ParseNext == \E source \in PageSources : ParsePage(source)

\* ------------------------------------------------------------ get_weights
NoMap == [obj |-> "none", map |-> DefaultWeights]
\* self.weights.copy(): a new dict with the same items
WeightsCopy_Live(w) == [obj |-> "self", map |-> w]
WeightsCopy(w) == [obj |-> "copy", map |-> w]
\* what a caller does to the dict it got: d[key] = value
CallerChanges == {[title_match |-> 0], [freshness |-> 70], [extra |-> 1]}

GetWeights ==
    /\ returned' = WeightsCopy(weights)
    /\ UNCHANGED <<scored, parsed, answer>>
    /\ UNCHANGED <<ivars, svars, cvars, tvars, hvars, fvars, kvars>>

\* the caller writes to the dict it holds; self.weights changes with it when
\* it is the same object
ModifyReturned(change) ==
    /\ returned.obj # "none"
    /\ returned' = [returned EXCEPT !.map = UpdatedWeights(@, change)]
    /\ weights' = IF returned.obj = "self" THEN returned'.map ELSE weights
    /\ UNCHANGED <<results, ranked, current_time, passed>>
    /\ UNCHANGED <<scored, parsed, answer>>
    /\ UNCHANGED <<ivars, svars, cvars, tvars, hvars, fvars>>

WeightsNext ==
    \/ GetWeights
    \/ \E change \in CallerChanges : ModifyReturned(change)
    \/ \E w \in WeightUpdates : UpdateWeights(w)
    \/ \E hits \in {h \in HitLists : Len(h) = 1} : QuerySearch(hits)
    \/ \E q \in Queries : RankResults(q)

\* ----------------------------------------------------- the search methods
Limits == 0 .. MaxLimit
\* what the searcher finds for a query, best first (places in HitCatalogue);
\* an index may hold a page twice
EngineMatches ==
    {[i \in 1 .. Len(ix) |-> HitCatalogue[ix[i]]] :
        ix \in {<<>>, <<1>>, <<2, 1>>, <<2, 1, 3>>, <<3, 2, 1>>, <<1, 1, 2>>}}
SearchQueries == {<<>>, <<"!">>, <<"a">>, <<"A", "!", "b">>}
\* ok, or the step that raises
SearchOutcomes == {"ok", "parse_raises", "search_raises", "format_raises"}
FacadeOutcomes == SearchOutcomes \cup {"init_raises"}

Min(a, b) == IF a < b THEN a ELSE b
\* list[:n], n not negative
FirstN(list, n) == SubSeq(list, 1, Min(n, Len(list)))

\* preprocess_query: a character that is no word character, blank, quote or
\* operator becomes a blank; runs of blanks become one; strip()
PreprocessQuery(query_string) ==
    CleanText([i \in 1 .. Len(query_string) |->
                 IF query_string[i] = "!" THEN " " ELSE query_string[i]])

\* except Exception as e: log and return []
OnException_Reraise == [raised |-> TRUE, result |-> <<>>]
OnException == [raised |-> FALSE, result |-> <<>>]
Returns(result) == [raised |-> FALSE, result |-> result]

\* QueryEngine.search: what it gives back; searcher.search raises for a limit
\* under 1
SearchResult(query_string, limit, matches, out) ==
    IF PreprocessQuery(query_string) = <<>> THEN Returns(<<>>)
    ELSE IF out # "ok" \/ limit < 1 THEN OnException
    ELSE Returns(FirstN(matches, limit))

Call(op, query_string, limit, enable_ranking, out, requested, raw, got) ==
    [op |-> op, query_string |-> query_string, limit |-> limit,
     enable_ranking |-> enable_ranking, out |-> out, requested |-> requested,
     raw |-> raw, result |-> got.result, raised |-> got.raised]
NoAnswer == Call("none", <<>>, 0, FALSE, "ok", 0, <<>>, Returns(<<>>))

QueryEngineSearch(query_string, limit, matches, out) ==
    /\ answer' = Call("QueryEngine.search", query_string, limit, FALSE, out,
                      limit, <<>>, SearchResult(query_string, limit, matches, out))
    /\ UNCHANGED <<scored, parsed, returned>>
    /\ UNCHANGED <<ivars, svars, cvars, tvars, hvars, fvars, kvars>>

\* rank_results: what it returns
RankedList(hits, query_string, w, now_) ==
    SortByScore([i \in 1 .. Len(hits) |->
                   Scored(hits[i], Split(Lower(query_string)),
                          [i2 \in 1 .. Len(hits) |-> hits[i2].content], w, now_)])

\* SearchEngine.search: the limit it gives the query engine
RequestedLimit_Same(limit) == limit
RequestedLimit(limit) == limit * 2

\* SearchEngine.search: with no query engine yet it makes one, which raises
\* when there is no index to open
FacadeSearch(query_string, limit, enable_ranking, matches, out) ==
    LET requested == RequestedLimit(limit)
        found == SearchResult(query_string, requested, matches, out)
        raw == found.result
    IN  /\ answer' =
              IF out = "init_raises"
                THEN Call("search", query_string, limit, enable_ranking, out,
                          0, <<>>, OnException)
              ELSE Call("search", query_string, limit, enable_ranking, out,
                        requested, raw,
                        IF raw = <<>> THEN Returns(<<>>)
                        ELSE IF enable_ranking
                          THEN Returns(FirstN(RankedList(raw, query_string,
                                                         weights, current_time),
                                              limit))
                        ELSE Returns(FirstN(raw, limit)))
        /\ UNCHANGED <<scored, parsed, returned>>
        /\ UNCHANGED <<ivars, svars, cvars, tvars, hvars, fvars, kvars>>

StartsWith(word, prefix) ==
    Len(prefix) <= Len(word) /\ SubSeq(word, 1, Len(prefix)) = prefix
\* suggest_query: the words of the titles found that begin with the partial
\* query and are longer
Words(partial_query, titles) ==
    {w \in UNION {Range(Split(Lower(titles[i]))) : i \in 1 .. Len(titles)} :
        StartsWith(w, Lower(partial_query)) /\ Len(w) > Len(partial_query)}
\* list(words): the words in the order the set gives them
Listings(words) ==
    {l \in [1 .. Cardinality(words) -> words] :
        \A i, j \in 1 .. Cardinality(words) : l[i] = l[j] => i = j}
TitleLists ==
    {<<>>, <<<<"a", "b", " ", "A", "a">>>>,
     <<<<"a", "b">>, <<"b", " ", "a", "b">>, <<"a", "a", "b">>>>}

SuggestQuery(partial_query, limit, titles, out) ==
    /\ \E l \in Listings(Words(partial_query, FirstN(titles, limit * 2))) :
          answer' = Call("suggest_query", partial_query, limit, FALSE, out,
                         limit * 2, <<>>,
                         IF out # "ok" \/ limit * 2 < 1 THEN OnException
                         ELSE Returns(FirstN(l, limit)))
    /\ UNCHANGED <<scored, parsed, returned>>
    /\ UNCHANGED <<ivars, svars, cvars, tvars, hvars, fvars, kvars>>

\* the terms of the title field in the order of the lexicon, each with the
\* number of documents it is in
Term(text, freq) == [text |-> text, freq |-> freq]
Lexicons ==
    {<<>>,
     <<Term(<<"a", "b", "b", "a">>, 1), Term(<<"a", "b", "c">>, 3),
       Term(<<"b", "a", "b", "a">>, 2), Term(<<"b", "b", "b", "b">>, 2)>>}
\* sorted(term_freq.items(), key=freq, reverse=True), a stable sort
RECURSIVE SortByFreq(_)
SortByFreq(terms) ==
    IF Len(terms) = 0 THEN <<>>
    ELSE LET before == SortByFreq(SubSeq(terms, 1, Len(terms) - 1))
             last == terms[Len(terms)]
             n == Cardinality({i \in 1 .. Len(before) : before[i].freq >= last.freq})
         IN  SubSeq(before, 1, n) \o <<last>> \o SubSeq(before, n + 1, Len(before))
PopularTerms(lexicon, limit) ==
    LET sorted_terms == SortByFreq(SelectSeq(lexicon, LAMBDA t : Len(t.text) > 3))
    IN  [i \in 1 .. Min(limit, Len(sorted_terms)) |-> sorted_terms[i].text]

GetPopularQueries(limit, lexicon, out) ==
    /\ answer' = Call("get_popular_queries", <<>>, limit, FALSE, out, 0, <<>>,
                      IF out # "ok" THEN OnException
                      ELSE Returns(PopularTerms(lexicon, limit)))
    /\ UNCHANGED <<scored, parsed, returned>>
    /\ UNCHANGED <<ivars, svars, cvars, tvars, hvars, fvars, kvars>>

SearchNext ==
    \/ \E q \in SearchQueries, limit \in Limits, matches \in EngineMatches,
          out \in SearchOutcomes : QueryEngineSearch(q, limit, matches, out)
    \/ \E q \in SearchQueries, limit \in Limits, enable_ranking \in BOOLEAN,
          matches \in EngineMatches, out \in FacadeOutcomes :
            FacadeSearch(q, limit, enable_ranking, matches, out)
    \/ \E q \in SearchQueries, limit \in Limits, titles \in TitleLists,
          out \in {"ok", "parse_raises", "search_raises"} :
            SuggestQuery(q, limit, titles, out)
    \/ \E limit \in Limits, lexicon \in Lexicons,
          out \in {"ok", "search_raises"} : GetPopularQueries(limit, lexicon, out)
    \/ \E w \in WeightUpdates : UpdateWeights(w)

CallsInit ==
    /\ scored = NoScore
    /\ parsed = NoPage
    /\ returned = NoMap
    /\ answer = NoAnswer

Init ==
    /\ IndexInit /\ SchedInit /\ CrawlInit /\ StatusInit /\ ConfigInit
    /\ RankInit /\ CallsInit
Next ==
    \/ IndexNext \/ JobsNext \/ FindNext \/ ExecNext \/ LoopNext \/ RaceNext
    \/ ManualNext \/ StopNext \/ ConfigNext \/ RankNext
    \/ TitleNext \/ ParseNext \/ WeightsNext \/ SearchNext
    \/ CrawlNext \/ StatusNext
Spec == Init /\ [][Next]_vars
SpecJobs == Init /\ [][JobsNext]_vars
SpecFind == Init /\ [][FindNext]_vars
SpecExec == Init /\ [][JobsNext \/ ExecNext]_vars
SpecLoop == Init /\ [][JobsNext \/ LoopNext]_vars
SpecRace == Init /\ [][RaceNext]_vars
SpecManual == Init /\ [][ManualNext]_vars
SpecStop == Init /\ [][StopNext]_vars

\* the loop's thread keeps running: it wakes after its sleep, and a crawl ends
FairLoop ==
    /\ SpecLoop
    /\ WF_vars(\E l \in LoopIds : LoopWake(l))
    /\ WF_vars(\E l \in LoopIds, k \in Keys : LoopRunJob(l, k))
    /\ WF_vars(\E l \in LoopIds, out \in Outcomes : LoopFinishJob(l, out))

FairStop ==
    /\ SpecStop
    /\ WF_vars(\E l \in LoopIds : LoopWake(l))
    /\ WF_vars(\E l \in LoopIds, k \in Keys : LoopRunJob(l, k))
    /\ WF_vars(\E l \in LoopIds, out \in Outcomes : LoopFinishJob(l, out))

\* run_job_now on a list of daily and manual jobs
RunNowNext ==
    \/ \E ty \in {"daily", "manual"}, pa \in Params : AddCrawlJob(ty, pa)
    \/ \E id \in Keys : RemoveCrawlJob(id)
    \/ \E id \in Keys : RunJobNow(id)
    \/ \E w \in workers : WorkerStart(w)
    \/ \E w \in workers, out \in Outcomes : WorkerFinish(w, out)

SpecWeights == Init /\ [][WeightsNext]_vars
SpecSearch == Init /\ [][SearchNext]_vars
SpecTitle == Init /\ [][TitleNext]_vars
SpecParse == Init /\ [][ParseNext]_vars
SpecRunNow == Init /\ [][RunNowNext]_vars

\* every thread run_job_now started keeps running: it comes to its crawl, and
\* the crawl ends
FairRunNow ==
    /\ SpecRunNow
    /\ \A k \in Keys :
          /\ WF_vars(WorkerStart([key |-> k, st |-> "spawned"]))
          /\ WF_vars(\E out \in Outcomes :
                        WorkerFinish([key |-> k, st |-> "crawl"], out))

SpecIndex == Init /\ [][IndexNext]_vars
SpecCrawl == Init /\ [][CrawlNext]_vars
SpecStatus == Init /\ [][StatusNext]_vars
SpecConfig == Init /\ [][ConfigNext]_vars
SpecRank == Init /\ [][RankNext]_vars

\* a crawl in progress goes on: the loop takes its next turn, and returns
FairCrawl ==
    /\ SpecCrawl
    /\ WF_vars(\E out \in FetchOutcomes : CrawlLoopStep(out))
    /\ WF_vars(CrawlReturn)

\* ------------------------------------------------------------------ claims

\* C1: after any sequence of index writes the index holds at most one record
\* per url.
C1_OneRecordPerUrl == \A u \in Urls : CountUrl(index, u) <= 1

\* C2: an id add_crawl_job assigns is greater than the id of every job of the
\* list, so that no two jobs of the list share an id.
C2_IdsUniqueIncreasing ==
    [][Len(crawl_jobs') > Len(crawl_jobs) =>
         \A i \in 1 .. Len(crawl_jobs) :
            jobs[crawl_jobs[i]].id < jobs'[crawl_jobs'[Len(crawl_jobs')]].id]_vars

\* C3: every change of a job's status follows scheduled -> running,
\* running -> completed, running -> failed, completed -> scheduled or
\* failed -> scheduled (running -> scheduled is update_job_status taking a
\* daily job through completed to scheduled in one call); no job is set to
\* running from another status than scheduled.
StatusEdges ==
    {<<"scheduled", "running">>, <<"running", "completed">>,
     <<"running", "failed">>, <<"completed", "scheduled">>,
     <<"failed", "scheduled">>, <<"running", "scheduled">>}
C3_StatusEdges ==
    [][\A k \in Keys :
         (jobs[k] # NoJob /\ jobs'[k] # NoJob
            /\ jobs'[k].status # jobs[k].status)
         => <<jobs[k].status, jobs'[k].status>> \in StatusEdges]_vars

\* C4: a job whose add_crawl_job has returned is in the job list, unless
\* remove_crawl_job was called with its id.
C4_NoLostAdd ==
    \A k \in Keys :
        jobs[k] # NoJob =>
            k \in Range(crawl_jobs) \/ jobs[k].id \in removed_ids

\* C5: while the background loop runs, a scheduled job of a recurring type
\* that is in the job list and whose trigger time is reached is passed to
\* execute_crawl_job by the loop (or is no longer such a job).
LoopAlive == is_running /\ \E l \in LoopIds : loop[l].st # "dead"
AwaitsDispatch(k) ==
    /\ LoopAlive
    /\ k \in Range(crawl_jobs)
    /\ jobs[k].status = "scheduled"
    /\ jobs[k].stype \in Recurring
    /\ k \in due
C5_DueJobsDispatched ==
    \A k \in Keys :
        AwaitsDispatch(k) ~> ((\E l \in LoopIds : loop[l].cur = k)
                              \/ ~AwaitsDispatch(k))

\* C6: while an execution the loop dispatched is in progress, the loop can
\* wake, or dispatch another registered job that is due.
C6_LoopNotBlocked ==
    \A l \in LoopIds, k \in Keys :
        (is_running /\ loop[l].cur # 0 /\ k # loop[l].cur
           /\ k \in registry \cap due)
        => ENABLED (\E l2 \in LoopIds : LoopWake(l2) \/ LoopRunJob(l2, k))

\* C7: a search returns the committed records that match its query, whenever
\* the query engine was made.
C7_SearchSeesCommits ==
    ev.op = "search" => ev.result = Hits(index, ev.url)

\* C8: when adding the new record fails in update_document for a url that is
\* indexed, the records of that url stay as they were and the call raises.
C8_UpdateRollsBack ==
    [][(ev'.op = "update_document" /\ ev'.addFailed
          /\ CountUrl(index, ev'.url) > 0)
       => /\ \A d \in Doc : d.url = ev'.url => index'[d] = index[d]
          /\ ev'.raised]_vars

\* C9: index_pages commits every page of its batch, or, when adding a page
\* fails, leaves the index as it was and raises.
C9_BulkAllOrNothing ==
    [][ev'.op = "index_pages" =>
         IF ev'.addFailed \/ ev'.raised
           THEN index' = index /\ ev'.raised
           ELSE Total(index') = Total(index) + ev'.n]_vars

\* C10: at most one writer is open on the index at any time; a second
\* index.writer() fails at once.
OpenWriters == {t \in Writers : wop[t] # "none"}
C10_SingleWriter == Cardinality(OpenWriters) <= 1
\* a thread holds the writer for index_pages and another's index_pages has
\* just failed with LockError
C10_Witness ==
    /\ ev.op = "index_pages" /\ ev.raised /\ wlock
    /\ \E t \in Writers : wop[t] = "index_pages"

\* C11: the list a crawl call returns holds at most max_pages pages, also for
\* the second and later crawl_and_index calls on one facade.
C11_AtMostMaxPages == cst = "returned" => Len(crawled_pages) <= max_pages

\* C12: a crawl call starts with an empty visited set and an empty page list:
\* while it runs and when it returns, the visited set and the page list hold
\* only urls this call fetched.
PageUrls == {crawled_pages[i].url : i \in 1 .. Len(crawled_pages)}
C12_RunStartsEmpty ==
    cst \in {"loop", "returned"} =>
        visited_urls \subseteq fetched /\ PageUrls \subseteq fetched

\* C13: every page a crawl call returns has a depth of at most max_depth.
C13_DepthAtMostMax ==
    cst = "returned" =>
        \A i \in 1 .. Len(crawled_pages) : crawled_pages[i].depth <= max_depth

\* C14: no url is in two pages of the page list, also when it is linked from
\* several pages, queued several times or listed twice among the seeds.
C14_NoUrlTwice ==
    \A i, j \in 1 .. Len(crawled_pages) :
        i # j => crawled_pages[i].url # crawled_pages[j].url
\* the first crawl of a crawler, with a seed listed twice, has returned two
\* pages, the second of them linked twice from the first
C14_Witness ==
    /\ cst = "returned" /\ owner = "job"
    /\ seeds = <<"a", "a">>
    /\ links["a"] = <<"b", "b", "c">>
    /\ PageUrls = {"a", "b"}

\* C15: with one seed whose fetch succeeds and max_pages = 1, the loop takes
\* no turn after that page, and crawl returns one page and leaves the queue
\* empty.
C15_CapStopsAtOnePage ==
    [][(cst = "loop" /\ Len(seeds) = 1 /\ max_pages = 1
          /\ seeds # <<>> /\ seeds[1] \in fetched)
       => /\ ~(\E out \in FetchOutcomes : CrawlLoopStep(out))
          /\ cst' = "returned" =>
                Len(crawled_pages') = 1 /\ url_queue' = <<>>]_vars

\* C16: a crawl call returns: its loop ends, the queue being empty or the page
\* cap reached.
C16_CrawlTerminates == (cst = "loop") ~> (cst = "returned")
\* a crawl has returned at the page cap with urls left in the queue
C16_Witness ==
    /\ cst = "returned"
    /\ Len(crawled_pages) >= max_pages
    /\ url_queue # <<>>
    /\ fetched # {}

\* C17: execute_crawl_job leaves the job it was given completed (scheduled for
\* a daily job) when crawl, parse and index raise nothing, also with no page
\* crawled or parsed, and failed when one of them raises; never running.
ExecutedStatus(stype, out) ==
    IF out = "raise" THEN "failed"
    ELSE IF stype = "daily" THEN "scheduled" ELSE "completed"
C17_ExecuteMarksJob ==
    [][\A l \in LoopIds, out \in Outcomes :
         (LoopFinishJob(l, out) /\ loop[l].cur \in Range(crawl_jobs))
         => jobs'[loop[l].cur].status
              = ExecutedStatus(jobs[loop[l].cur].stype, out)]_vars

\* C18: crawl_and_index returns false and leaves its tracking job failed when
\* no page was crawled, none was parsed or indexing raised, and returns true
\* and leaves the tracking job completed (scheduled for a daily job) otherwise.
TrackedStatus(stype, out) ==
    IF ~CrawlAndIndexReturns(out) THEN "failed"
    ELSE IF stype = "daily" THEN "scheduled" ELSE "completed"
C18_FacadeMarksJob ==
    [][\A out \in Outcomes :
         (/\ CrawlAndIndexFinish(out)
          /\ tracked \in Range(crawl_jobs)
          /\ jobs[tracked].id = facade)
         => /\ CrawlAndIndexReturns(out) <=> out \notin {"empty", "raise"}
            /\ jobs'[tracked].status
                 = TrackedStatus(jobs[tracked].stype, out)]_vars

\* C19: a daily job whose schedule_time is HH:MM and that update_job_status
\* sets to completed with no next_run gets the next calendar day at HH:MM:00
\* as its next_run, and the status scheduled.
DigitChar(n) == <<"0", "1", "2", "3", "4", "5", "6", "7", "8", "9">>[n + 1]
HH(h) == <<DigitChar(h \div 10), DigitChar(h % 10)>>
\* the calendar: the day after each of Dates
DayAfter(y, mo, d) ==
    CASE <<y, mo, d>> = <<2023, 2, 28>> -> <<2023, 3, 1>>
      [] <<y, mo, d>> = <<2023, 12, 31>> -> <<2024, 1, 1>>
      [] <<y, mo, d>> = <<2024, 1, 1>> -> <<2024, 1, 2>>
      [] <<y, mo, d>> = <<2024, 2, 28>> -> <<2024, 2, 29>>
      [] <<y, mo, d>> = <<2024, 2, 29>> -> <<2024, 3, 1>>
      [] <<y, mo, d>> = <<2024, 4, 30>> -> <<2024, 5, 1>>
C19_DailyNextRun ==
    [][(/\ tjob.stype = "daily"
        /\ \E lr \in {NoneVal, IsoFormat(now)} :
              UpdateJobStatusTimed("completed", lr, NoneVal))
       => \A h \in 0 .. 23 :
             (/\ Len(tjob.schedule_time) = 5
              /\ SubSeq(tjob.schedule_time, 1, 3) = HH(h) \o <<":">>)
             => \A m \in 0 .. 59 :
                   SubSeq(tjob.schedule_time, 4, 5) = HH(m) =>
                      /\ tjob'.status = "scheduled"
                      /\ tjob'.next_run
                           = DayAfter(now.y, now.mo, now.d) \o <<h, m, 0>>]_vars
\* the spec's scenario: completed at 2024-01-01T10:00:00 with 02:00
C19_Witness ==
    /\ now = Datetime(2024, 1, 1, 10, 0, 0, 0)
    /\ tjob.stype = "daily"
    /\ tjob.schedule_time = <<"0", "2", ":", "0", "0">>
    /\ tjob.last_run = <<2024, 1, 1, 10, 0, 0>>
    /\ tjob.status = "scheduled"
    /\ tjob.next_run = <<2024, 1, 2, 2, 0, 0>>

\* C20: a weekly or hourly job that update_job_status sets to completed with
\* no next_run gets a new next_run and the status scheduled.
C20_RecurringNextRun ==
    [][(/\ tjob.stype \in {"weekly", "hourly"}
        /\ \E lr \in {NoneVal, IsoFormat(now)} :
              UpdateJobStatusTimed("completed", lr, NoneVal))
       => /\ tjob'.status = "scheduled"
          /\ tjob'.next_run # NoneVal
          /\ tjob'.next_run # tjob.next_run]_vars

\* C27: optimize_index leaves the committed records as they are: none is
\* lost, none is added, none is there twice where it was there once.
C27_OptimizeKeepsDocs ==
    [][ev'.op = "optimize_index" => index' = index]_vars
\* optimize_index has run to its end on an index that holds records
C27_Witness ==
    /\ ev.op = "optimize_index" /\ ~wlock
    /\ \E d \in Doc : index[d] > 0

\* C24: find_or_create_manual_job returns the id of a job of the list when
\* one has the same set of seed urls and the same limits, and adds nothing;
\* otherwise it adds one manual job with these seed urls and limits. Called a
\* second time right after, it returns the same id and adds nothing. Called
\* right after add_crawl_job with the same set and limits, it adds nothing,
\* and it returns the id add_crawl_job returned when no earlier job of the
\* list has that set and those limits.
C24_SameSet(p, q) ==
    /\ \A i \in 1 .. Len(p.seed_urls) :
          \E i2 \in 1 .. Len(q.seed_urls) : q.seed_urls[i2] = p.seed_urls[i]
    /\ \A i \in 1 .. Len(q.seed_urls) :
          \E i2 \in 1 .. Len(p.seed_urls) : p.seed_urls[i2] = q.seed_urls[i]
    /\ p.max_pages = q.max_pages /\ p.max_depth = q.max_depth
C24_Matches(pa) ==
    {i \in 1 .. Len(crawl_jobs) : C24_SameSet(jobs[crawl_jobs[i]].params, pa)}
C24_FindStep(pa) ==
    FindOrCreateManualJob(pa) =>
        /\ C24_Matches(pa) # {} =>
              /\ crawl_jobs' = crawl_jobs /\ jobs' = jobs
              /\ \E i \in C24_Matches(pa) :
                    FoundOrNewId(pa) = jobs[crawl_jobs[i]].id
        /\ C24_Matches(pa) = {} =>
              /\ Len(crawl_jobs') = Len(crawl_jobs) + 1
              /\ SubSeq(crawl_jobs', 1, Len(crawl_jobs)) = crawl_jobs
              /\ \A k \in Range(crawl_jobs) : jobs'[k] = jobs[k]
              /\ LET new == jobs'[crawl_jobs'[Len(crawl_jobs')]]
                 IN  /\ new.stype = "manual" /\ new.params = pa
                     /\ new.id = FoundOrNewId(pa)
        \* the call made next
        /\ FoundOrNewId(pa)' = FoundOrNewId(pa)
        /\ ListAfterFind(pa)' = crawl_jobs'
C24_AfterAdd(ty, pa, pb, always) ==
    (AddCrawlJob(ty, pa) /\ C24_SameSet(pa, pb)) =>
        \* the call made next
        /\ ListAfterFind(pb)' = crawl_jobs'
        /\ (always \/ C24_Matches(pb) = {}) =>
              FoundOrNewId(pb)' = NextId(crawl_jobs)
C24_FindOrCreate ==
    [][/\ \A pa \in ManualParams : C24_FindStep(pa)
       /\ \A ty \in Types, pa \in Params, pb \in ManualParams :
             C24_AfterAdd(ty, pa, pb, FALSE)]_vars
\* C24 as stated: after add_crawl_job the call returns the id add_crawl_job
\* returned, whatever the list held before.
C24_AsStated ==
    [][/\ \A pa \in ManualParams : C24_FindStep(pa)
       /\ \A ty \in Types, pa \in Params, pb \in ManualParams :
             C24_AfterAdd(ty, pa, pb, TRUE)]_vars
\* the list holds a job add_crawl_job made and, after it, a manual job that
\* find_or_create_manual_job made for the same urls with another limit
C24_Witness ==
    /\ Len(crawl_jobs) = 2
    /\ jobs[crawl_jobs[1]].stype = "daily"
    /\ jobs[crawl_jobs[1]].params = CrawlParams(<<"a", "b">>, 1, 1)
    /\ jobs[crawl_jobs[2]].stype = "manual"
    /\ jobs[crawl_jobs[2]].params = CrawlParams(<<"a", "b">>, 2, 1)

\* C25: run_job_now(id) with no job of that id in the list returns False,
\* starts no thread and changes no job; with a job of that id it returns True
\* having only started a thread for the first such job, no job changed yet,
\* and that thread's execute_crawl_job comes to its end, where it reports
\* completed or failed.
C25_HasId(id) == \E i \in 1 .. Len(crawl_jobs) : jobs[crawl_jobs[i]].id = id
C25_RunStep(id) ==
    RunJobNow(id) =>
        /\ RunJobNowFound(id) <=> C25_HasId(id)
        /\ jobs' = jobs /\ crawl_jobs' = crawl_jobs
        /\ ~C25_HasId(id) => workers' = workers
        /\ C25_HasId(id) =>
              \E w \in workers' :
                  /\ workers' = workers \cup {w} /\ w \notin workers
                  /\ w.st = "spawned" /\ jobs[w.key].id = id
                  /\ \A i \in 1 .. Len(crawl_jobs) :
                        crawl_jobs[i] = w.key =>
                          \A i2 \in 1 .. i - 1 : jobs[crawl_jobs[i2]].id # id
C25_RunJobNow ==
    /\ [][\A id \in Keys : C25_RunStep(id)]_vars
    /\ [][\A w \in workers, out \in Outcomes :
            WorkerFinish(w, out) => EndStatus(out) \in {"completed", "failed"}]_vars
    /\ [][\A w \in workers \ workers' :
            IF w.st = "spawned"
              THEN [w EXCEPT !.st = "crawl"] \in workers'
              ELSE \E out \in Outcomes : WorkerFinish(w, out)]_vars
    /\ \A w \in [key : Keys, st : {"spawned", "crawl"}] :
          (w \in workers) ~> (w \notin workers)
\* a thread started by run_job_now is in its crawl, the caller long returned
C25_Witness ==
    \E w \in workers : w.st = "crawl" /\ jobs[w.key].status = "running"

\* C21: a manual job that has been run (it left scheduled for running, and
\* then completed or failed) is never set back to scheduled, and the
\* background loop never runs a manual job, whatever its status.
C21_ManualStaysTerminal ==
    [][/\ \A k \in Keys :
            (jobs[k].stype = "manual" /\ jobs[k].status # "scheduled")
                => jobs'[k].status # "scheduled"
       /\ \A l \in LoopIds, k \in Keys :
            LoopRunJob(l, k) => jobs[k].stype # "manual"
       /\ \A k \in registry' : jobs'[k].stype # "manual"]_vars
\* a manual job is completed while the loop's thread is alive and a job is
\* registered with it
C21_Witness ==
    /\ \E k \in Range(crawl_jobs) :
          jobs[k].stype = "manual" /\ jobs[k].status = "completed"
    /\ is_running /\ registry # {}
    /\ \E l \in LoopIds : loop[l].st = "sleep"

\* C26: once stop_scheduler has been called, every loop thread alive at that
\* time comes to its end, and at its next wake-up it runs no job; a job it is
\* running at the time of the stop is run to its end.
C26_StopEndsLoop ==
    /\ \A l \in LoopIds :
          (~is_running /\ loop[l].st # "dead") ~> (loop[l].st = "dead")
    /\ \A l \in LoopIds : (loop[l].cur # 0) ~> (loop[l].cur = 0)
    /\ [][\A l \in LoopIds :
            (LoopWake(l) /\ ~is_running) => loop'[l].st = "dead"]_vars

\* C22: when add_crawl_job, remove_crawl_job or update_job_status has
\* returned, the job list in the config file is the job list in memory: a
\* scheduler made from the file has the same jobs, with the same ids,
\* statuses, last_run and next_run.
C22_Mutation ==
    \/ \E ty \in Types, pa \in Params, out \in SaveOutcomes :
          AddCrawlJobSaved(ty, pa, out)
    \/ \E id \in Keys, out \in SaveOutcomes : RemoveCrawlJobSaved(id, out)
    \/ \E id \in Keys, st \in Statuses, lr \in BOOLEAN, out \in SaveOutcomes :
          UpdateJobStatusSaved(id, st, lr, out)
C22_FileHoldsJobs ==
    [][C22_Mutation =>
          /\ config_file'.st = "json"
          /\ LoadConfiguration(config_file') = saved_jobs']_vars

\* C23: a scheduler made when the config file is missing, cannot be read or
\* holds something other than a list of jobs has an empty job list.
C23_JobData(file) ==
    /\ file.st = "json" /\ file.top = "object" /\ file.has
    /\ file.val.t = "array" /\ file.val.n = 0
C23_BadFileLoadsEmpty ==
    [][(SchedulerInit /\ ~C23_JobData(config_file))
          => saved_jobs' = JobList(<<>>)]_vars

\* C28: rank_results called again with an equal hit list, an equal query
\* string and equal weights returns the list it returned before, scores and
\* order alike, and no call changes the hit dicts it is given.
C28_RankIsPure ==
    [][\A q \in Queries :
          (passed'.query = q /\ passed'.hits = results /\ RankResults(q)) =>
              /\ results' = results
              /\ (passed.query = q /\ passed.hits = results
                  /\ passed.weights = weights) => ranked' = ranked]_vars

\* C29: what rank_results returns is the hits it was given in another order
\* (each with its scores added), the ranking scores never going up along the
\* list, and hits of equal ranking score in the order they came in.
C29_Given(hit) ==
    [k \in DOMAIN hit \ {"ranking_score", "score_breakdown"} |-> hit[k]]
C29_SortedStablePermutation ==
    [][\A q \in Queries :
          (passed'.query = q /\ passed'.hits = results /\ RankResults(q)) =>
              /\ Len(ranked') = Len(results)
              /\ \E pi \in Permutations(1 .. Len(results)) :
                    /\ \A i \in 1 .. Len(results) :
                          C29_Given(ranked'[i]) = C29_Given(results[pi[i]])
                    /\ \A i, j \in 1 .. Len(results) :
                          i < j =>
                            /\ ranked'[i].ranking_score >= ranked'[j].ranking_score
                            /\ ranked'[i].ranking_score = ranked'[j].ranking_score
                                  => pi[i] < pi[j]]_vars
\* rank_results has returned two different hits of equal ranking score, and
\* has returned two hits in the reverse of the order they came in
C29_Witness ==
    /\ Len(ranked) = 2
    /\ ranked[1].ranking_score = ranked[2].ranking_score
    /\ ranked[1].url # ranked[2].url
    /\ C29_Given(ranked[1]) = passed.hits[1]

\* C30: update_weights sets the weights it names to the values given and
\* leaves every other weight as it was, and the scores of the next
\* rank_results are made with the weights as they then are.
C30_Weighted(hit, w) ==
    LET b == hit.score_breakdown
    IN  hit.ranking_score =
            b.title_score * w.title_match + b.content_score * w.content_match
            + b.meta_score * w.meta_description_match
            + b.heading_score * w.heading_match + b.url_score * w.url_match
            + b.freshness_score * w.freshness
            + b.content_length_score * w.content_length
            - b.depth_penalty * (IF w.depth_penalty < 0 THEN -w.depth_penalty
                                 ELSE w.depth_penalty)
            + hit.score
C30_UpdateWeights ==
    [][/\ \A new \in WeightUpdates :
            UpdateWeights(new) =>
                /\ DOMAIN weights' = DOMAIN weights \cup DOMAIN new
                /\ \A k \in DOMAIN new : weights'[k] = new[k]
                /\ \A k \in DOMAIN weights \ DOMAIN new : weights'[k] = weights[k]
       /\ \A q \in Queries :
            (passed'.query = q /\ passed'.hits = results /\ RankResults(q)) =>
                \A i \in 1 .. Len(ranked') : C30_Weighted(ranked'[i], weights)]_vars
\* the weights have been changed and rank_results has scored hits with them
C30_Witness ==
    /\ weights.title_match = 50 /\ weights.freshness = 0
    /\ Len(ranked) > 0 /\ passed.weights = weights
    /\ \E i \in 1 .. Len(ranked) :
          ranked[i].score_breakdown.title_score > 0
          /\ ranked[i].score_breakdown.freshness_score > 0

\* C37: when remove_crawl_job(id) returns no job of the list has that id, and
\* the background loop starts an execution only of a job that is in the list:
\* never of a job that was registered with it and removed since.
C37_RemovedNeverRun ==
    /\ [][\A id \in Keys :
            RemoveCrawlJob(id) =>
                \A i \in 1 .. Len(crawl_jobs') : jobs'[crawl_jobs'[i]].id # id]_vars
    /\ [][\A l \in LoopIds, k \in Keys :
            LoopRunJob(l, k) => k \in Range(crawl_jobs)]_vars

\* C38: whatever start_scheduler and stop_scheduler calls were made, at most
\* one loop thread is in run_pending with jobs to run: never two loops are
\* dispatching jobs.
C38_OneLoop == Cardinality({l \in LoopIds : loop[l].st = "run"}) <= 1

\* C35: within one crawl call, a url that was tried and gave no page (robots
\* said no, the fetch failed or the page was not html) is not tried again:
\* crawl_page goes to can_fetch and the fetch only for urls not yet refused.
C35_Tries(out) ==
    /\ CrawlLoopStep(out)
    /\ ~IsVisited(visited_urls, Head(url_queue)[1])
    /\ ~CrawlPageSkips(Head(url_queue)[1], Head(url_queue)[2])
C35_NoRetry ==
    [][\A out \in FetchOutcomes :
          C35_Tries(out) => Head(url_queue)[1] \notin refused]_vars

\* C34: the title score is the sum over the query terms of 10 for a term that
\* is the whole title (case aside), 5 for a term that is a word of the title
\* between blanks, 2 for a term that is only a part of it and 0 for a term not
\* in it. A title "API" scores 10 for the query "API"; a title without the
\* term scores 0.
C34_Expected(term, title) ==
    IF title = term THEN 10
    ELSE IF \E i, j \in 1 .. Len(title) :
              /\ SubSeq(title, i, j) = term
              /\ i = 1 \/ title[i - 1] = " "
              /\ j = Len(title) \/ title[j + 1] = " "
      THEN 5
    ELSE IF \E i, j \in 1 .. Len(title) : SubSeq(title, i, j) = term THEN 2
    ELSE 0
C34_TitleScore ==
    /\ scored.title_score =
          1000 * SumSeq([n \in 1 .. Len(scored.query_terms) |->
                           C34_Expected(scored.query_terms[n], Lower(scored.title))])
    /\ (scored.title = <<"A", "P", "I">>
          /\ scored.query_string = <<"A", "P", "I">>)
          => scored.title_score = 10000
    /\ (\A n \in 1 .. Len(scored.query_terms) :
            ~Contains(scored.query_terms[n], Lower(scored.title)))
          => scored.title_score = 0
\* the query api api scored on the title "x api x": the word, counted twice
C34_Witness ==
    /\ scored.title = <<"x", " ", "a", "p", "i", " ", "x">>
    /\ scored.query_terms = <<<<"a", "p", "i">>, <<"a", "p", "i">>>>
    /\ scored.title_score = 10000

\* C36: the headings of a parsed page are the h1 to h6 elements of the page,
\* every one once, each with its level, in the order in which they stand in
\* the document.
C36_Level(tag) == CHOOSE i \in 1 .. 6 : HeadingTags[i] = tag
C36_HeadingsOf(soup) == SelectSeq(soup, LAMBDA e : e.tag \in Range(HeadingTags))
C36_DocumentOrder ==
    /\ Len(parsed.headings) = Len(C36_HeadingsOf(parsed.soup))
    /\ \A n \in 1 .. Len(parsed.headings) :
          parsed.headings[n].level = C36_Level(C36_HeadingsOf(parsed.soup)[n].tag)

\* C31: get_weights hands out a snapshot: it holds the weights as they are at
\* the call, and a caller that writes to the dict it got changes neither
\* self.weights, which a later get_weights returns and a later rank_results
\* uses, nor anything else of the ranking.
C31_Snapshot ==
    /\ [][\A change \in CallerChanges :
            ModifyReturned(change) => weights' = weights]_vars
    /\ [][GetWeights => (returned'.map = weights /\ weights' = weights)]_vars
    /\ [][\A q \in Queries :
            (passed'.query = q /\ RankResults(q)) => passed'.weights = weights]_vars
\* the caller has set title_match to 0 in its dict, and hits were ranked with
\* the weight the ranking still has
C31_Witness ==
    /\ returned.obj = "copy"
    /\ returned.map.title_match = 0
    /\ weights.title_match # 0
    /\ ranked # <<>>
    /\ passed.weights = weights

\* C32: SearchEngine.search(query, limit, enable_ranking) asks the query
\* engine for 2 * limit hits and returns at most limit hits: with ranking, the
\* hits of highest ranking score among those it got, in non-increasing order
\* of ranking score; without, the first limit hits it got, in their order.
C32_Score(hit, a) ==
    TotalScore(ScoreBreakdown(hit, Split(Lower(a.query_string)),
                              [i \in 1 .. Len(a.raw) |-> a.raw[i].content],
                              current_time),
               weights, hit.score)
C32_Picks(a) ==
    {f \in [1 .. Len(a.result) -> 1 .. Len(a.raw)] :
        /\ \A i, j \in 1 .. Len(a.result) : f[i] = f[j] => i = j
        /\ \A i \in 1 .. Len(a.result) :
              /\ \A key \in DOMAIN a.raw[f[i]] : a.result[i][key] = a.raw[f[i]][key]
              /\ a.result[i].ranking_score = C32_Score(a.raw[f[i]], a)}
C32_Holds(a) ==
    /\ a.requested = 2 * a.limit
    /\ Len(a.result) <= a.limit
    /\ Len(a.result) = Min(a.limit, Len(a.raw))
    /\ Len(a.raw) <= 2 * a.limit
    /\ ~a.enable_ranking => a.result = SubSeq(a.raw, 1, Len(a.result))
    /\ a.enable_ranking =>
          /\ \A i \in 1 .. Len(a.result) - 1 :
                a.result[i].ranking_score >= a.result[i + 1].ranking_score
          /\ \E f \in C32_Picks(a) :
                \A j \in 1 .. Len(a.raw), i \in 1 .. Len(a.result) :
                    (\A i2 \in 1 .. Len(a.result) : f[i2] # j)
                        => C32_Score(a.raw[j], a) <= a.result[i].ranking_score
C32_FacadeSearch ==
    [][(answer'.op = "search" /\ answer'.out # "init_raises" /\ answer' # answer)
          => C32_Holds(answer')]_vars
\* the engine found three hits, two were asked for (limit 1), and ranking put
\* the second of them first
C32_Witness ==
    /\ answer.op = "search" /\ answer.enable_ranking /\ answer.limit = 1
    /\ Len(answer.raw) = 2 /\ Len(answer.result) = 1
    /\ answer.result[1].url = answer.raw[2].url
    /\ answer.raw[1].url # answer.raw[2].url

\* C33: QueryEngine.search, suggest_query and get_popular_queries and
\* SearchEngine.search never raise to the caller: when preprocessing, parsing
\* or running the query raises inside, the caller gets an empty list.
C33_ErrorsCaught ==
    /\ ~answer.raised
    /\ answer.out # "ok" => answer.result = <<>>
\* the parser raised on the query inside SearchEngine.search
C33_Witness ==
    /\ answer.op = "search" /\ answer.out = "parse_raises"
    /\ PreprocessQuery(answer.query_string) # <<>>
    /\ answer.result = <<>> /\ ~answer.raised
====
